---- MODULE Spec2Model ----
(***************************************************************************)
(* Model of the performance harness of extend-vscode:                      *)
(*   - PerformanceProfiler.measureAsync and PerformanceTestRunner.runTest   *)
(*     (the benchmark runner), as a process whose steps are the stretches   *)
(*     of code between two awaits;                                          *)
(*   - PerformanceRegressionDetector (historical store and regression       *)
(*     analysis).                                                           *)
(* JavaScript objects are functions whose DOMAIN holds the fields that are  *)
(* present: an optional field that is undefined is not in the DOMAIN.       *)
(***************************************************************************)
EXTENDS Integers, Sequences, FiniteSets, TLC

VARIABLES pc, config, i, benchmarks, result, log, measurements

\* the history directory, the clock read by Date.now(), the running
\* storeHistoricalData calls, the number of calls begun and returned, and the
\* last RegressionReport returned by analyzeRegression
VARIABLES files, clock, store, calls, returned, regression

\* the arguments and the result of the last calculateSeverity call
VARIABLES sevIn, sevOut

\* the arguments and the result of the last getPerformanceTrends call
VARIABLES trends

\* the reporter's configuration, its generateReport call, the files of its
\* output directory, the writes under way and the warnings on the console
VARIABLES reportConfig, reporter, outputDir, inflight, console

\* the two results handed to the comparison of compareImplementations and
\* what it returns
VARIABLES cmpIn, cmpOut

\* the runTestSuite call under way or returned
VARIABLES suite

\* the runTest calls made by the user of the shared profiler with the
\* operations they called since the ledger was last cleared (history
\* variable), and the last report of PerformanceProfiler
VARIABLES session, profilerReport

\* the measureSync or measureAsync call under way or settled
VARIABLES sampler

\* the reports handed to generateSummary, as they are now, and the texts it
\* returned
VARIABLES summaries

\* process.env and what getPerformanceConfig returned for it
VARIABLES perfConfig

\* the logger singleton, the extend-vscode.logLevel setting and the lines of
\* the output channel
VARIABLES logger

\* the measureActivation call of ExtensionPerformanceProfiler and the
\* profiler's own lists
VARIABLES activation

\* a benchmark and what each of the three threshold checks says of it
VARIABLES verdicts

\* the StatusBarManager: its map of items, every item created and whether
\* it was disposed
VARIABLES statusBar

runnerVars == <<pc, config, i, benchmarks, result, log, measurements>>

detectorVars == <<files, clock, store, calls, returned, regression>>

severityVars == <<sevIn, sevOut>>

trendVars == <<trends>>

reporterVars == <<reportConfig, reporter, outputDir, inflight, console>>

compareVars == <<cmpIn, cmpOut>>

suiteVars == <<suite>>

ledgerVars == <<session, profilerReport>>

toolVars == <<sampler, summaries, perfConfig, logger, activation, verdicts, statusBar>>

\* the variables of the callers of runTest and of the other tools
callerVars == <<compareVars, suiteVars, ledgerVars, toolVars>>

vars == <<pc, config, i, benchmarks, result, log, measurements,
          files, clock, store, calls, returned, regression, sevIn, sevOut,
          trends, reportConfig, reporter, outputDir, inflight, console,
          cmpIn, cmpOut, suite, session, profilerReport,
          sampler, summaries, perfConfig, logger, activation, verdicts, statusBar>>

(***************************************************************************)
(* Bounds                                                                  *)
(***************************************************************************)
\* largest `iterations` of a test configuration
MaxIterations == 3

\* config.maxHistoryCount of the detector under test (50 when not configured)
maxHistoryCount == 2

\* Date.now() when the detector is constructed; every later reading has the
\* same number of decimal digits (true of Date.now() from 2001 to 2286)
Epoch == 10

\* the points around every tier threshold that calculateSeverity is tried on
PctSlack == 1

\* largest `count` handed to getPerformanceTrends
MaxCount == 2

\* generateReport calls made on one reporter
MaxReports == 2

(***************************************************************************)
(* Inputs of the runner                                                    *)
(***************************************************************************)
Restrict(f, S) == [x \in S |-> f[x]]

\* ceilings a configuration can set (positive when present)
ThresholdFields == {"maxDuration", "maxMemoryDelta", "maxCpuUsage"}

AllThresholds == [maxDuration |-> 1, maxMemoryDelta |-> 1, maxCpuUsage |-> 1]

\* PerformanceThresholds: every field optional
PerformanceThresholds == {Restrict(AllThresholds, S) : S \in SUBSET ThresholdFields}

TestNames == {"op"}

\* PerformanceTestConfig: thresholds optional, hooks optional
ConfigBase ==
    [name : TestNames, iterations : 1..MaxIterations,
     setup : BOOLEAN, cleanup : BOOLEAN]

PerformanceTestConfig ==
    ConfigBase \cup
    {c @@ [thresholds |-> t] : c \in ConfigBase, t \in PerformanceThresholds}

\* values the operation or a hook can throw: an Error or any other value
Thrown == {[isError |-> TRUE, message |-> "Activation failed"],
           [isError |-> FALSE, value |-> "oops"]}

\* what the sampler measures when the operation completes: the duration,
\* the heap delta (negative after a collection) and, when CPU metrics are
\* collected and at least one sample was taken, the averaged CPU usage; the
\* values lie below, on and above the ceilings of AllThresholds
Samples ==
    {[duration |-> 1, memoryDelta |-> -1],
     [duration |-> 2, memoryDelta |-> -1],
     [duration |-> 1, memoryDelta |-> 2],
     [duration |-> 1, memoryDelta |-> 1, cpuUsage |-> 1],
     [duration |-> 1, memoryDelta |-> -1, cpuUsage |-> 2]}

(***************************************************************************)
(* PerformanceTestRunner                                                   *)
(***************************************************************************)
\* `${config.name}-iteration-${i + 1}`
iterationName(name, k) == <<name, "-iteration-", k>>

\* error instanceof Error ? error.message : String(error)
errorText(e) == IF e.isError THEN e.message ELSE e.value

\* the benchmark measureAsync builds when the operation resolves
measuredBenchmark(cfg, k, sample) ==
    [name |-> iterationName(cfg.name, k),
     metrics |-> sample @@
         [metadata |-> [iteration |-> k, totalIterations |-> cfg.iterations]]]

\* if (config.thresholds) benchmark.thresholds = config.thresholds
applyThresholds(cfg, b) ==
    IF "thresholds" \in DOMAIN cfg THEN b @@ [thresholds |-> cfg.thresholds] ELSE b

\* variant: the degraded benchmark does not carry the error text
errorBenchmark_noError(cfg, k, e) ==
    applyThresholds(cfg,
        [name |-> iterationName(cfg.name, k),
         metrics |-> [duration |-> 0, memoryDelta |-> 0, cpuUsage |-> 0,
                      metadata |-> [iteration |-> k,
                                    totalIterations |-> cfg.iterations]]])

\* the degraded benchmark of the catch block
errorBenchmark(cfg, k, e) ==
    applyThresholds(cfg,
        [name |-> iterationName(cfg.name, k),
         metrics |-> [duration |-> 0, memoryDelta |-> 0, cpuUsage |-> 0,
                      metadata |-> [iteration |-> k,
                                    totalIterations |-> cfg.iterations,
                                    error |-> errorText(e)]]])

\* variant: a benchmark that carries an error is outside its thresholds
isWithinThresholds_errorFails(b) ==
    IF "thresholds" \notin DOMAIN b THEN TRUE
    ELSE LET t == b.thresholds
             m == b.metrics
         IN  IF "error" \in DOMAIN m.metadata THEN FALSE
             ELSE IF "maxDuration" \in DOMAIN t /\ m.duration > t.maxDuration THEN FALSE
             ELSE IF "maxMemoryDelta" \in DOMAIN t /\ m.memoryDelta > t.maxMemoryDelta
                    THEN FALSE
             ELSE IF /\ "maxCpuUsage" \in DOMAIN t
                     /\ "cpuUsage" \in DOMAIN m
                     /\ m.cpuUsage > t.maxCpuUsage
                    THEN FALSE
             ELSE TRUE

\* PerformanceTestRunner.isWithinThresholds
isWithinThresholds(b) ==
    IF "thresholds" \notin DOMAIN b THEN TRUE
    ELSE LET t == b.thresholds
             m == b.metrics
         IN  IF "maxDuration" \in DOMAIN t /\ m.duration > t.maxDuration THEN FALSE
             ELSE IF "maxMemoryDelta" \in DOMAIN t /\ m.memoryDelta > t.maxMemoryDelta
                    THEN FALSE
             ELSE IF /\ "maxCpuUsage" \in DOMAIN t
                     /\ "cpuUsage" \in DOMAIN m
                     /\ m.cpuUsage > t.maxCpuUsage
                    THEN FALSE
             ELSE TRUE

RECURSIVE SumDurations(_)
SumDurations(bs) ==
    IF bs = <<>> THEN 0 ELSE bs[1].metrics.duration + SumDurations(Tail(bs))

RECURSIVE CountWithin(_)
CountWithin(bs) ==
    IF bs = <<>> THEN 0
    ELSE (IF isWithinThresholds(bs[1]) THEN 1 ELSE 0) + CountWithin(Tail(bs))

\* variant: the verdict ignores the failed iterations
passedFlag_ignoresFailures(cfg, failedIterations) ==
    "thresholds" \notin DOMAIN cfg \/ failedIterations >= 0

\* passed = !config.thresholds || failedIterations === 0
passedFlag(cfg, failedIterations) ==
    "thresholds" \notin DOMAIN cfg \/ failedIterations = 0

\* the statistics and the verdict computed after the loop; averageDuration
\* is the fraction totalDuration / count
testResult(cfg, bs) ==
    LET passedIterations == CountWithin(bs)
        failedIterations == Len(bs) - passedIterations
    IN  [benchmarks |-> bs,
         summary |-> [totalDuration |-> SumDurations(bs),
                      count |-> Len(bs),
                      passedIterations |-> passedIterations,
                      failedIterations |-> failedIterations],
         passed |-> passedFlag(cfg, failedIterations)]

NoResult == [passed |-> FALSE, pending |-> TRUE]

Event(kind, k) == [kind |-> kind, iteration |-> k]

\* the head of the for loop with 1-based iteration k: call the setup hook and
\* await it, or call the operation through measureAsync and await it, or
\* leave the loop and return the result
loopHead(cfg, k, bs, lg) ==
    IF k > cfg.iterations
      THEN [pc |-> "done", i |-> k, benchmarks |-> bs, log |-> lg,
            result |-> testResult(cfg, bs)]
    ELSE IF cfg.setup
      THEN [pc |-> "setup", i |-> k, benchmarks |-> bs,
            log |-> Append(lg, Event("setup-start", k)), result |-> NoResult]
    ELSE [pc |-> "measure", i |-> k, benchmarks |-> bs,
          log |-> Append(lg, Event("op-start", k)), result |-> NoResult]

\* variant: the cleanup hook is called but not awaited
finallyBlock_noAwait(cfg, k, bs, lg) ==
    IF cfg.cleanup
      THEN loopHead(cfg, k + 1, bs, Append(lg, Event("cleanup-start", k)))
    ELSE loopHead(cfg, k + 1, bs, lg)

\* the finally block of iteration k: call the cleanup hook and await it, or
\* go on with the loop
finallyBlock(cfg, k, bs, lg) ==
    IF cfg.cleanup
      THEN [pc |-> "cleanup", i |-> k, benchmarks |-> bs,
            log |-> Append(lg, Event("cleanup-start", k)), result |-> NoResult]
    ELSE loopHead(cfg, k + 1, bs, lg)

\* the try block of iteration k after measureAsync resolved with benchmark b:
\* apply the thresholds, push the benchmark, then the finally block
tryBlock(cfg, k, bs, lg, b) ==
    finallyBlock(cfg, k, Append(bs, applyThresholds(cfg, b)), lg)

\* variant: the cleanup hook call sits at the end of the try block, there is
\* no finally
catchBlock_noFinally(cfg, k, bs, lg, e) ==
    loopHead(cfg, k + 1, Append(bs, errorBenchmark(cfg, k, e)), lg)

\* variant: the catch block records nothing
catchBlock_noBenchmark(cfg, k, bs, lg, e) ==
    finallyBlock(cfg, k, bs, lg)

\* the catch block of iteration k: push the degraded benchmark, then the
\* finally block
catchBlock(cfg, k, bs, lg, e) ==
    finallyBlock(cfg, k, Append(bs, errorBenchmark(cfg, k, e)), lg)

Goto(next) ==
    /\ pc' = next.pc
    /\ i' = next.i
    /\ benchmarks' = next.benchmarks
    /\ log' = next.log
    /\ result' = next.result

\* what runTest(testFn, cfg) does up to its first await
StartRun(cfg) ==
    /\ config' = cfg
    /\ Goto(loopHead(cfg, 1, <<>>, <<>>))
    /\ UNCHANGED measurements

\* runTest(testFn, config) up to its first await
RunTest(cfg) ==
    /\ pc = "idle"
    /\ StartRun(cfg)
    /\ UNCHANGED <<detectorVars, severityVars, trendVars, reporterVars, callerVars>>

\* await config.setup() resolves: measureAsync starts the operation
SetupReturn ==
    /\ pc = "setup"
    /\ pc' = "measure"
    /\ log' = log \o <<Event("setup-end", i), Event("op-start", i)>>
    /\ UNCHANGED <<config, i, benchmarks, result, measurements>>
    /\ UNCHANGED <<detectorVars, severityVars, trendVars, reporterVars, callerVars>>

\* await config.setup() rejects: runTest rejects
SetupThrow ==
    /\ pc = "setup"
    /\ \E e \in Thrown :
         /\ pc' = "rejected"
         /\ log' = Append(log, Event("setup-throw", i) @@ [error |-> e])
    /\ UNCHANGED <<config, i, benchmarks, result, measurements>>
    /\ UNCHANGED <<detectorVars, severityVars, trendVars, reporterVars, callerVars>>

\* the awaited operation resolves: measureAsync records the benchmark, the
\* runner applies the thresholds and enters the finally block
MeasureReturn ==
    /\ pc = "measure"
    /\ \E sample \in Samples :
         LET b == measuredBenchmark(config, i, sample)
         IN  \* the ledger holds the same object the runner sets thresholds on
             /\ measurements' = Append(measurements, applyThresholds(config, b))
             /\ Goto(tryBlock(config, i, benchmarks,
                              Append(log, Event("op-end", i)), b))
    /\ UNCHANGED config
    /\ UNCHANGED <<detectorVars, severityVars, trendVars, reporterVars, callerVars>>

\* the awaited operation rejects: measureAsync rethrows, the runner's catch
\* block records the degraded benchmark and enters the finally block
MeasureThrow ==
    /\ pc = "measure"
    /\ \E e \in Thrown :
         Goto(catchBlock(config, i, benchmarks,
                         Append(log, Event("op-throw", i) @@ [error |-> e]), e))
    /\ UNCHANGED <<config, measurements>>
    /\ UNCHANGED <<detectorVars, severityVars, trendVars, reporterVars, callerVars>>

\* await config.cleanup() resolves: next iteration or return
CleanupReturn ==
    /\ pc = "cleanup"
    /\ Goto(loopHead(config, i + 1, benchmarks, Append(log, Event("cleanup-end", i))))
    /\ UNCHANGED <<config, measurements>>
    /\ UNCHANGED <<detectorVars, severityVars, trendVars, reporterVars, callerVars>>

\* await config.cleanup() rejects: runTest rejects
CleanupThrow ==
    /\ pc = "cleanup"
    /\ \E e \in Thrown :
         /\ pc' = "rejected"
         /\ log' = Append(log, Event("cleanup-throw", i) @@ [error |-> e])
    /\ UNCHANGED <<config, i, benchmarks, result, measurements>>
    /\ UNCHANGED <<detectorVars, severityVars, trendVars, reporterVars, callerVars>>

(***************************************************************************)
(* Numbers of the regression analysis.  The code computes in doubles; the  *)
(* model computes the same quotients exactly, as fractions num/den with    *)
(* den > 0.  The inputs keep every divisor other than the memory baseline  *)
(* non-zero (durations and CPU usages are positive).                       *)
(***************************************************************************)
Rat(n, d) == [num |-> n, den |-> d]

RatGeq(a, b) == a.num * b.den >= b.num * a.den

RatEq(a, b) == a.num * b.den = b.num * a.den

RatSub(a, b) == Rat(a.num * b.den - b.num * a.den, a.den * b.den)

RatDiv(a, b) ==
    IF b.num > 0 THEN Rat(a.num * b.den, a.den * b.num)
    ELSE Rat(-(a.num * b.den), -(a.den * b.num))

RatTimes(a, k) == Rat(a.num * k, a.den)

\* Math.abs
RatAbs(a) == IF a.num < 0 THEN Rat(-a.num, a.den) ELSE a

\* Math.max of two numbers
RatMax(a, b) == IF RatGeq(a, b) THEN a ELSE b

RECURSIVE SumSeq(_)
SumSeq(values) == IF values = <<>> THEN 0 ELSE values[1] + SumSeq(Tail(values))

\* Array.prototype.map
Map(s, F(_)) == [k \in 1..Len(s) |-> F(s[k])]

RECURSIVE Concat(_)
Concat(ss) == IF ss = <<>> THEN <<>> ELSE ss[1] \o Concat(Tail(ss))

\* Array.prototype.flatMap
FlatMap(s, F(_)) == Concat(Map(s, F))

(***************************************************************************)
(* PerformanceRegressionDetector: configuration                            *)
(***************************************************************************)
\* config.thresholds (defaults)
thresholds ==
    [duration |-> [minor |-> 5, moderate |-> 15, major |-> 30, critical |-> 50],
     memory |-> [minor |-> 10, moderate |-> 25, major |-> 50, critical |-> 100],
     cpu |-> [minor |-> 10, moderate |-> 20, major |-> 40, critical |-> 60]]

\* config.minSamples (default)
minSamples == 3

severityOrder == <<"none", "minor", "moderate", "major", "critical">>

(***************************************************************************)
(* PerformanceRegressionDetector: regression analysis                      *)
(***************************************************************************)
\* PerformanceRegressionDetector.calculateAverage
calculateAverage(values) == Rat(SumSeq(values), Len(values))

\* variant: the critical tier is never reported
calculateSeverity_noCritical(reg) ==
    LET maxRegression ==
            RatMax(RatMax(reg.durationRegression, reg.memoryRegression),
                   IF "cpuRegression" \in DOMAIN reg THEN reg.cpuRegression
                   ELSE Rat(0, 1))
        Reaches(tier) ==
            \/ RatGeq(maxRegression, Rat(thresholds.duration[tier], 1))
            \/ RatGeq(reg.memoryRegression, Rat(thresholds.memory[tier], 1))
            \/ /\ "cpuRegression" \in DOMAIN reg
               /\ RatGeq(reg.cpuRegression, Rat(thresholds.cpu[tier], 1))
    IN  IF Reaches("major") THEN "major"
        ELSE IF Reaches("moderate") THEN "moderate"
        ELSE IF Reaches("minor") THEN "minor"
        ELSE "none"

\* PerformanceRegressionDetector.calculateSeverity; reg holds the arguments
\* durationRegression, memoryRegression and, when given, cpuRegression
calculateSeverity(reg) ==
    LET maxRegression ==
            RatMax(RatMax(reg.durationRegression, reg.memoryRegression),
                   IF "cpuRegression" \in DOMAIN reg THEN reg.cpuRegression
                   ELSE Rat(0, 1))
        Reaches(tier) ==
            \/ RatGeq(maxRegression, Rat(thresholds.duration[tier], 1))
            \/ RatGeq(reg.memoryRegression, Rat(thresholds.memory[tier], 1))
            \/ /\ "cpuRegression" \in DOMAIN reg
               /\ RatGeq(reg.cpuRegression, Rat(thresholds.cpu[tier], 1))
    IN  IF Reaches("critical") THEN "critical"
        ELSE IF Reaches("major") THEN "major"
        ELSE IF Reaches("moderate") THEN "moderate"
        ELSE IF Reaches("minor") THEN "minor"
        ELSE "none"

HasCpu(b) == "cpuUsage" \in DOMAIN b.metrics

\* PerformanceRegressionDetector.performRegressionAnalysis
performRegressionAnalysis(current, historical) ==
    LET historicalDurations == Map(historical, LAMBDA b : b.metrics.duration)
        historicalMemoryDeltas == Map(historical, LAMBDA b : b.metrics.memoryDelta)
        historicalCpuUsages ==
            Map(SelectSeq(historical, HasCpu), LAMBDA b : b.metrics.cpuUsage)
        baseline ==
            [duration |-> calculateAverage(historicalDurations),
             memoryDelta |-> calculateAverage(historicalMemoryDeltas),
             sampleCount |-> Len(historical)] @@
            (IF Len(historicalCpuUsages) > 0
               THEN [cpuUsage |-> calculateAverage(historicalCpuUsages)]
               ELSE <<>>)
        durationRegression ==
            RatTimes(RatDiv(RatSub(Rat(current.metrics.duration, 1), baseline.duration),
                            baseline.duration), 100)
        memoryRegression ==
            RatTimes(RatDiv(RatSub(Rat(current.metrics.memoryDelta, 1),
                                   baseline.memoryDelta),
                            RatAbs(IF baseline.memoryDelta.num = 0 THEN Rat(1, 1)
                                   ELSE baseline.memoryDelta)), 100)
        percentages ==
            [durationRegression |-> durationRegression,
             memoryRegression |-> memoryRegression] @@
            (IF "cpuUsage" \in DOMAIN baseline /\ HasCpu(current)
               THEN [cpuRegression |->
                       RatTimes(RatDiv(RatSub(Rat(current.metrics.cpuUsage, 1),
                                              baseline.cpuUsage),
                                       baseline.cpuUsage), 100)]
               ELSE <<>>)
        severity == calculateSeverity(percentages)
    IN  [benchmarkName |-> current.name,
         current |-> Restrict(current.metrics,
                              DOMAIN current.metrics
                                \cap {"duration", "memoryDelta", "cpuUsage"}),
         baseline |-> baseline,
         regression |-> percentages @@
             [detected |-> severity # "none", severity |-> severity]]

\* PerformanceRegressionDetector.getHistoricalBenchmarks
getHistoricalBenchmarks(historicalData, benchmarkName) ==
    FlatMap(historicalData,
            LAMBDA data : SelectSeq(data.benchmarks, LAMBDA b : b.name = benchmarkName))

\* variant: the scan of severityOrder starts at the mild end
RECURSIVE worstFrom_ascending(_, _)
worstFrom_ascending(severities, k) ==
    IF k = 0 THEN "none"
    ELSE IF severityOrder[Len(severityOrder) + 1 - k] \in severities
      THEN severityOrder[Len(severityOrder) + 1 - k]
    ELSE worstFrom_ascending(severities, k - 1)

\* the loop of getWorstSeverity from severityOrder[k] downwards
RECURSIVE worstFrom(_, _)
worstFrom(severities, k) ==
    IF k = 0 THEN "none"
    ELSE IF severityOrder[k] \in severities THEN severityOrder[k]
    ELSE worstFrom(severities, k - 1)

\* PerformanceRegressionDetector.getWorstSeverity
getWorstSeverity(analyses) ==
    worstFrom({analyses[k].regression.severity : k \in 1..Len(analyses)},
              Len(severityOrder))

\* PerformanceRegressionDetector.generateSummary: the parts of the sentence
generateSummary(totalBenchmarks, regressionsDetected, worstSeverity) ==
    IF regressionsDetected = 0
      THEN <<"No performance regressions detected in", totalBenchmarks>>
    ELSE <<regressionsDetected, totalBenchmarks, worstSeverity>>

\* variant: a name with exactly minSamples stored samples is skipped
enoughSamples_offByOne(historicalBenchmarks) ==
    ~(Len(historicalBenchmarks) <= minSamples)

\* the negation of the test that skips a benchmark of analyzeRegression
enoughSamples(historicalBenchmarks) ==
    ~(Len(historicalBenchmarks) < minSamples)

\* the loop of analyzeRegression over currentBenchmarks
RECURSIVE analysesOf(_, _)
analysesOf(historicalData, currentBenchmarks) ==
    IF currentBenchmarks = <<>> THEN <<>>
    ELSE LET currentBenchmark == currentBenchmarks[1]
             historicalBenchmarks ==
                 getHistoricalBenchmarks(historicalData, currentBenchmark.name)
             rest == analysesOf(historicalData, Tail(currentBenchmarks))
         IN  IF enoughSamples(historicalBenchmarks)
               THEN <<performRegressionAnalysis(currentBenchmark,
                                                historicalBenchmarks)>> \o rest
             ELSE rest

\* PerformanceRegressionDetector.analyzeRegression, after the history is loaded
analyzeRegression(historicalData, currentBenchmarks) ==
    LET analyses == analysesOf(historicalData, currentBenchmarks)
        regressionsDetected ==
            Len(SelectSeq(analyses, LAMBDA a : a.regression.detected))
        worstSeverity == getWorstSeverity(analyses)
    IN  [totalBenchmarks |-> Len(analyses),
         regressionsDetected |-> regressionsDetected,
         analyses |-> analyses,
         overall |-> [hasRegressions |-> regressionsDetected > 0,
                      worstSeverity |-> worstSeverity,
                      summary |-> generateSummary(Len(analyses), regressionsDetected,
                                                  worstSeverity)]]

(***************************************************************************)
(* PerformanceRegressionDetector: the historical store                     *)
(***************************************************************************)
\* the decimal digits of a timestamp
RECURSIVE Digits(_)
Digits(n) == IF n < 10 THEN <<n>> ELSE Append(Digits(n \div 10), n % 10)

\* `performance-${Date.now()}.json`: the names differ in their digits only,
\* and the '.' after the digits sorts below every digit
filename(t) == Digits(t)

\* string comparison of two file names, as Array.prototype.sort() does it
RECURSIVE NameLess(_, _)
NameLess(a, b) ==
    IF b = <<>> THEN FALSE
    ELSE IF a = <<>> THEN TRUE
    ELSE IF a[1] # b[1] THEN a[1] < b[1]
    ELSE NameLess(Tail(a), Tail(b))

\* performanceFiles.sort()
RECURSIVE sortNames(_)
sortNames(names) ==
    IF names = {} THEN <<>>
    ELSE LET first == CHOOSE n \in names : \A m \in names \ {n} : NameLess(n, m)
         IN  <<first>> \o sortNames(names \ {first})

Reverse(s) == [k \in 1..Len(s) |-> s[Len(s) + 1 - k]]

\* variant: the newest files are the ones deleted
filesToDelete_newest(names) ==
    LET performanceFiles == sortNames(names)
    IN  IF Len(performanceFiles) > maxHistoryCount
          THEN SubSeq(performanceFiles, maxHistoryCount + 1, Len(performanceFiles))
        ELSE <<>>

\* cleanupOldData: the files to delete, given the directory listing
filesToDelete(names) ==
    LET performanceFiles == Reverse(sortNames(names))
    IN  IF Len(performanceFiles) > maxHistoryCount
          THEN SubSeq(performanceFiles, maxHistoryCount + 1, Len(performanceFiles))
        ELSE <<>>

\* the orders in which readdir may list the files
Listings(names) ==
    {s \in [1..Cardinality(names) -> names] : \A n \in names : \E k \in DOMAIN s : s[k] = n}

\* data.sort((a, b) => a.timestamp - b.timestamp), a stable sort
RECURSIVE sortByTimestamp(_)
sortByTimestamp(data) ==
    IF data = <<>> THEN <<>>
    ELSE LET k == CHOOSE j \in 1..Len(data) :
                    /\ \A l \in 1..Len(data) : data[j].timestamp <= data[l].timestamp
                    /\ \A l \in 1..(j - 1) : data[l].timestamp > data[j].timestamp
         IN  <<data[k]>> \o
             sortByTimestamp(SubSeq(data, 1, k - 1) \o SubSeq(data, k + 1, Len(data)))

\* a file that readFile or JSON.parse rejects
Unparsable == [unparsable |-> TRUE]

\* a file holding the JSON text `null`
null == [null |-> TRUE]

\* a file holding a JSON object with a timestamp and no benchmarks
NoBenchmarks(t) == [timestamp |-> t]

\* the contents pushed to `data`: the inner catch skips the rejected files
parsedData(dir, listing) ==
    SelectSeq([k \in 1..Len(listing) |-> dir[listing[k]]],
              LAMBDA content : "unparsable" \notin DOMAIN content)

\* (a, b) => a.timestamp - b.timestamp throws a TypeError on null; with two
\* or more elements the sort hands every element to the comparator
sortThrows(data) ==
    Len(data) >= 2 /\ \E k \in 1..Len(data) : data[k] = null

\* loadHistoricalData, for the listing readdir returned; the outer catch
\* turns a throw of the sort into []
loadHistoricalData(dir, listing) ==
    LET data == parsedData(dir, listing)
    IN  IF sortThrows(data) THEN <<>>
        ELSE IF Len(data) < 2 THEN data
        ELSE sortByTimestamp(data)

\* data.benchmarks.filter(...) throws a TypeError when data is null or has
\* no benchmarks
flatMapThrows(historicalData) ==
    \E k \in 1..Len(historicalData) : "benchmarks" \notin DOMAIN historicalData[k]

Callers == {"A", "B"}

Idle == [pc |-> "idle"]

NoReport == [pending |-> TRUE]

\* Date.now(): the same millisecond as the last reading, or a later one
Now == {clock, clock + 1}

AllIdle == \A c \in Callers : store[c].pc = "idle"

\* storeHistoricalData(report) up to its first await (ensureHistoryDir)
StoreBegin(c, report) ==
    /\ store[c].pc = "idle"
    /\ calls' = calls + 1
    /\ store' = [store EXCEPT ![c] = [pc |-> "mkdir", report |-> report,
                                      call |-> calls + 1]]
    /\ regression' = NoReport
    /\ UNCHANGED <<files, clock, returned>>
    /\ UNCHANGED <<runnerVars, severityVars, trendVars, reporterVars, callerVars>>

\* mkdir resolved: timestamp: Date.now(), then await getGitCommitHash()
StoreStamp(c) ==
    /\ store[c].pc = "mkdir"
    /\ \E t \in Now :
         /\ clock' = t
         /\ store' = [store EXCEPT ![c] = [pc |-> "git", timestamp |-> t] @@ @]
    /\ UNCHANGED <<files, calls, returned, regression>>
    /\ UNCHANGED <<runnerVars, severityVars, trendVars, reporterVars, callerVars>>

\* the commit hash resolved: the file name from Date.now(), then await
\* fs.writeFile(filepath, JSON.stringify(historicalData))
StoreName(c) ==
    /\ store[c].pc = "git"
    /\ \E t \in Now :
         /\ clock' = t
         /\ store' = [store EXCEPT ![c] = [pc |-> "write", filepath |-> filename(t)] @@ @]
    /\ UNCHANGED <<files, calls, returned, regression>>
    /\ UNCHANGED <<runnerVars, severityVars, trendVars, reporterVars, callerVars>>

\* the record of one run; `call` tells which call wrote it (history field)
historicalData(st) ==
    [timestamp |-> st.timestamp, benchmarks |-> st.report.benchmarks,
     call |-> st.call]

\* writeFile resolved (a file of that name is replaced): cleanupOldData
\* awaits fs.readdir
StoreWritten(c) ==
    /\ store[c].pc = "write"
    /\ files' = (store[c].filepath :> historicalData(store[c])) @@ files
    /\ store' = [store EXCEPT ![c] = [pc |-> "readdir"] @@ @]
    /\ UNCHANGED <<clock, calls, returned, regression>>
    /\ UNCHANGED <<runnerVars, severityVars, trendVars, reporterVars, callerVars>>

\* readdir resolved: nothing to delete and the call returns, or the first
\* unlink is awaited
CleanupList(c) ==
    /\ store[c].pc = "readdir"
    /\ LET doomed == filesToDelete(DOMAIN files)
       IN  IF doomed = <<>>
             THEN /\ store' = [store EXCEPT ![c] = Idle]
                  /\ returned' = returned + 1
           ELSE /\ store' = [store EXCEPT ![c] = [pc |-> "unlink", doomed |-> doomed] @@ @]
                /\ UNCHANGED returned
    /\ UNCHANGED <<files, clock, calls, regression>>
    /\ UNCHANGED <<runnerVars, severityVars, trendVars, reporterVars, callerVars>>

\* variant: cleanupOldData has no try/catch, the rejection of unlink rejects
\* storeHistoricalData
unlinkRejected_uncaught == [pc |-> "rejected", unlink |-> "ENOENT"]

\* catch { /* Ignore cleanup errors */ }: the call returns; `unlink` tells
\* that the cleanup ended this way (history field)
unlinkRejected == [pc |-> "idle", unlink |-> "ENOENT"]

\* an unlink resolved, or rejected because the file is gone (the catch of
\* cleanupOldData ends the cleanup); after the last one the call returns
CleanupUnlink(c) ==
    /\ store[c].pc = "unlink"
    /\ LET file == store[c].doomed[1]
           rest == Tail(store[c].doomed)
       IN  IF file \in DOMAIN files
             THEN /\ files' = Restrict(files, DOMAIN files \ {file})
                  /\ IF rest = <<>>
                       THEN /\ store' = [store EXCEPT ![c] = Idle]
                            /\ returned' = returned + 1
                     ELSE /\ store' = [store EXCEPT ![c] = [doomed |-> rest] @@ @]
                          /\ UNCHANGED returned
           ELSE /\ store' = [store EXCEPT ![c] = unlinkRejected]
                /\ returned' = IF unlinkRejected.pc = "idle" THEN returned + 1
                               ELSE returned
                /\ UNCHANGED files
    /\ UNCHANGED <<clock, calls, regression>>
    /\ UNCHANGED <<runnerVars, severityVars, trendVars, reporterVars, callerVars>>

\* analyzeRegression(currentBenchmarks), called while no store call runs
AnalyzeRegression(currentBenchmarks) ==
    /\ AllIdle
    /\ \E listing \in Listings(DOMAIN files) :
         LET loaded == loadHistoricalData(files, listing)
         IN  regression' =
               IF currentBenchmarks # <<>> /\ flatMapThrows(loaded)
                 THEN [currentBenchmarks |-> currentBenchmarks, error |-> "TypeError"]
               ELSE [currentBenchmarks |-> currentBenchmarks,
                     report |-> analyzeRegression(loaded, currentBenchmarks)]
    /\ UNCHANGED <<files, clock, store, calls, returned>>
    /\ UNCHANGED <<runnerVars, severityVars, trendVars, reporterVars, callerVars>>

DetectorInit ==
    /\ files = <<>>
    /\ clock = Epoch
    /\ store = [c \in Callers |-> Idle]
    /\ calls = 0
    /\ returned = 0
    /\ regression = NoReport

StoreSteps ==
    \E c \in Callers :
      \/ StoreStamp(c)
      \/ StoreName(c)
      \/ StoreWritten(c)
      \/ CleanupList(c)
      \/ CleanupUnlink(c)

(***************************************************************************)
(* The store used by one caller at a time                                  *)
(***************************************************************************)
\* enough calls to fill the store and prune five times
MaxStores == maxHistoryCount + 5

StoreReports == {[benchmarks |-> <<>>]}

StoreNext ==
    \/ /\ AllIdle
       /\ calls < MaxStores
       /\ \E report \in StoreReports : StoreBegin("A", report)
    \/ StoreSteps

(***************************************************************************)
(* The store used by two callers whose calls overlap                       *)
(***************************************************************************)
\* enough calls to fill the store and have two more overlap
OverlapStores == maxHistoryCount + 2

\* caller "A" calls when no call is under way; caller "B" calls while a call
\* of "A" is under way and no call has returned since it began, so that two
\* calls overlap at a time
OverlapNext ==
    \/ /\ calls < OverlapStores
       /\ AllIdle
       /\ \E report \in StoreReports : StoreBegin("A", report)
    \/ /\ calls < OverlapStores
       /\ store["A"].pc # "idle"
       /\ returned = store["A"].call - 1
       /\ \E report \in StoreReports : StoreBegin("B", report)
    \/ StoreSteps

(***************************************************************************)
(* The detector: runs are stored one at a time, then analysed              *)
(***************************************************************************)
Bench(name, duration) ==
    [name |-> name,
     metrics |-> [duration |-> duration, memoryDelta |-> 10, cpuUsage |-> 5]]

\* the benchmarks of the stored runs
DetectorReports ==
    {[benchmarks |-> <<Bench("a", 100), Bench("a", 100), Bench("b", 100), Bench("b", 100)>>],
     [benchmarks |-> <<Bench("a", 100), Bench("a", 160)>>],
     [benchmarks |-> <<Bench("a", 100)>>]}

\* the fresh benchmarks handed to analyzeRegression
CurrentLists ==
    {<<Bench("a", 100), Bench("b", 100)>>,
     <<Bench("b", 100), Bench("a", 160)>>,
     <<Bench("a", 160), Bench("a", 100)>>}

\* runs stored before the analysis
DetectorRuns == maxHistoryCount + 1

DetectorNext ==
    \/ /\ AllIdle
       /\ calls < DetectorRuns
       /\ \E report \in DetectorReports : StoreBegin("A", report)
    \/ StoreSteps
    \/ \E currentBenchmarks \in CurrentLists : AnalyzeRegression(currentBenchmarks)

(***************************************************************************)
(* getPerformanceTrends                                                    *)
(***************************************************************************)
Max(a, b) == IF a >= b THEN a ELSE b

\* Array.prototype.slice(-count): -0 is 0, so slice(-0) is the whole array
sliceLast(s, count) ==
    IF count = 0 THEN s
    ELSE SubSeq(s, Max(1, Len(s) - count + 1), Len(s))

\* one point of a trend; cpuUsage is undefined when the benchmark has none
trendPoint(data, b) ==
    LET point == [timestamp |-> data.timestamp, duration |-> b.metrics.duration,
                  memoryDelta |-> b.metrics.memoryDelta]
    IN  IF HasCpu(b) THEN [cpuUsage |-> b.metrics.cpuUsage] @@ point ELSE point

\* data.benchmarks.filter(b => b.name === benchmarkName).map(...)
pointsOf(data, benchmarkName) ==
    LET matching == SelectSeq(data.benchmarks, LAMBDA b : b.name = benchmarkName)
    IN  [k \in 1..Len(matching) |-> trendPoint(data, matching[k])]

\* relevantData, for the records loadHistoricalData returned
RECURSIVE relevantPoints(_, _)
relevantPoints(loaded, benchmarkName) ==
    IF loaded = <<>> THEN <<>>
    ELSE pointsOf(Head(loaded), benchmarkName) \o relevantPoints(Tail(loaded), benchmarkName)

\* .flatMap(...).sort((a, b) => a.timestamp - b.timestamp).slice(-count)
relevantData(loaded, benchmarkName, count) ==
    sliceLast(sortByTimestamp(relevantPoints(loaded, benchmarkName)), count)

\* an element of a (number | undefined)[]
undefined == <<>>

Number(x) == <<x>>

\* the four arrays returned
getPerformanceTrends(loaded, benchmarkName, count) ==
    LET data == relevantData(loaded, benchmarkName, count)
    IN  [timestamps |-> [k \in 1..Len(data) |-> data[k].timestamp],
         durations |-> [k \in 1..Len(data) |-> data[k].duration],
         memoryDeltas |-> [k \in 1..Len(data) |-> data[k].memoryDelta],
         cpuUsages |-> [k \in 1..Len(data) |->
                          IF "cpuUsage" \in DOMAIN data[k] THEN Number(data[k].cpuUsage)
                          ELSE undefined]]

NoTrends == [pending |-> TRUE]

\* getPerformanceTrends(benchmarkName, count), called while no store call
\* runs; `dir` keeps the directory as it was read (history field)
GetPerformanceTrends(benchmarkName, count) ==
    /\ AllIdle
    /\ \E listing \in Listings(DOMAIN files) :
         LET loaded == loadHistoricalData(files, listing)
             asked == [benchmarkName |-> benchmarkName, count |-> count, dir |-> files]
         IN  trends' =
               IF flatMapThrows(loaded) THEN [error |-> "TypeError"] @@ asked
               ELSE [result |-> getPerformanceTrends(loaded, benchmarkName, count)]
                    @@ asked
    /\ UNCHANGED detectorVars
    /\ UNCHANGED <<runnerVars, severityVars, reporterVars, callerVars>>

TrendsInit == trends = NoTrends

\* the benchmarks of the stored runs; only the first has CPU readings
TrendReports ==
    {[benchmarks |-> <<Bench("a", 100), Bench("b", 100)>>],
     [benchmarks |-> <<[name |-> "a", metrics |-> [duration |-> 160, memoryDelta |-> 20]],
                       [name |-> "a", metrics |-> [duration |-> 100, memoryDelta |-> 10]]>>]}

BenchmarkNames == {"a", "b", "c"}

\* runs stored before the queries
TrendRuns == maxHistoryCount + 1

TrendsNext ==
    \/ /\ AllIdle
       /\ calls < TrendRuns
       /\ trends = NoTrends
       /\ \E report \in TrendReports : StoreBegin("A", report)
    \/ StoreSteps
    \/ \E benchmarkName \in BenchmarkNames, count \in 0..MaxCount :
         GetPerformanceTrends(benchmarkName, count)

(***************************************************************************)
(* Damaged files in the history directory                                  *)
(***************************************************************************)
NothingAsked == regression = NoReport /\ trends = NoTrends

\* what a damaged file may hold
Junk == {Unparsable, null, NoBenchmarks(Epoch)}

\* the content of a stored file is replaced (a truncated or foreign file)
Damage(f, junk) ==
    /\ AllIdle
    /\ NothingAsked
    /\ f \in DOMAIN files
    /\ "benchmarks" \in DOMAIN files[f]
    /\ files' = [files EXCEPT ![f] = junk]
    /\ UNCHANGED <<clock, store, calls, returned, regression>>
    /\ UNCHANGED <<runnerVars, severityVars, trendVars, reporterVars, callerVars>>

\* the benchmarks of the stored runs
DamageReports ==
    {[benchmarks |-> <<Bench("a", 100), Bench("a", 100), Bench("a", 100)>>]}

\* runs stored before the files are damaged: one is pruned
DamageRuns == maxHistoryCount + 1

\* the fresh benchmarks analysed against the damaged directory
DamageLists == {<<>>, <<Bench("a", 160)>>}

DamageNext ==
    \/ /\ AllIdle
       /\ NothingAsked
       /\ calls < DamageRuns
       /\ \E report \in DamageReports : StoreBegin("A", report)
    \/ StoreSteps
    \/ \E f \in DOMAIN files, junk \in Junk : Damage(f, junk)
    \/ \E currentBenchmarks \in DamageLists : AnalyzeRegression(currentBenchmarks)
    \/ GetPerformanceTrends("a", MaxCount)

(***************************************************************************)
(* PerformanceReporter                                                     *)
(***************************************************************************)
\* variant: a value equal to its ceiling is outside the thresholds
PerformanceReporter_isWithinThresholds_atCeiling(benchmark) ==
    IF "thresholds" \notin DOMAIN benchmark THEN TRUE
    ELSE LET t == benchmark.thresholds
             metrics == benchmark.metrics
         IN  IF "maxDuration" \in DOMAIN t /\ metrics.duration >= t.maxDuration THEN FALSE
             ELSE IF "maxMemoryDelta" \in DOMAIN t /\ metrics.memoryDelta >= t.maxMemoryDelta
                    THEN FALSE
             ELSE IF /\ "maxCpuUsage" \in DOMAIN t
                     /\ "cpuUsage" \in DOMAIN metrics
                     /\ metrics.cpuUsage >= t.maxCpuUsage
                    THEN FALSE
             ELSE TRUE

\* PerformanceReporter.isWithinThresholds
PerformanceReporter_isWithinThresholds(benchmark) ==
    IF "thresholds" \notin DOMAIN benchmark THEN TRUE
    ELSE LET t == benchmark.thresholds
             metrics == benchmark.metrics
         IN  IF "maxDuration" \in DOMAIN t /\ metrics.duration > t.maxDuration THEN FALSE
             ELSE IF "maxMemoryDelta" \in DOMAIN t /\ metrics.memoryDelta > t.maxMemoryDelta
                    THEN FALSE
             ELSE IF /\ "maxCpuUsage" \in DOMAIN t
                     /\ "cpuUsage" \in DOMAIN metrics
                     /\ metrics.cpuUsage > t.maxCpuUsage
                    THEN FALSE
             ELSE TRUE

RatGt(a, b) == ~RatGeq(b, a)

\* ((value - max) / max) * 100, for a positive ceiling
excess(value, max) ==
    RatTimes(RatDiv(RatSub(Rat(value, 1), Rat(max, 1)), Rat(max, 1)), 100)

\* PerformanceReporter.getAlertSeverity
getAlertSeverity(benchmark) ==
    IF "thresholds" \notin DOMAIN benchmark THEN "low"
    ELSE LET t == benchmark.thresholds
             durationExcess ==
                 IF "maxDuration" \in DOMAIN t
                   THEN excess(benchmark.metrics.duration, t.maxDuration)
                 ELSE Rat(0, 1)
             memoryExcess ==
                 IF "maxMemoryDelta" \in DOMAIN t
                   THEN excess(benchmark.metrics.memoryDelta, t.maxMemoryDelta)
                 ELSE Rat(0, 1)
             maxExcess == RatMax(durationExcess, memoryExcess)
         IN  IF RatGt(maxExcess, Rat(100, 1)) THEN "critical"
             ELSE IF RatGt(maxExcess, Rat(50, 1)) THEN "high"
             ELSE IF RatGt(maxExcess, Rat(20, 1)) THEN "medium"
             ELSE "low"

\* PerformanceReporter.mapRegressionSeverity
mapRegressionSeverity(severity) ==
    CASE severity = "critical" -> "critical"
      [] severity = "major" -> "high"
      [] severity = "moderate" -> "medium"
      [] OTHER -> "low"

\* the alert pushed for a benchmark outside its thresholds
thresholdAlert(benchmark) ==
    [type |-> "threshold",
     severity |-> getAlertSeverity(benchmark),
     message |-> <<"Benchmark \"", benchmark.name, "\" exceeded performance thresholds">>,
     benchmarkName |-> benchmark.name,
     context |-> [duration |-> benchmark.metrics.duration,
                  memoryDelta |-> benchmark.metrics.memoryDelta,
                  thresholds |-> benchmark.thresholds]]

\* the alert pushed for a detected regression
regressionAlert(analysis) ==
    [type |-> "regression",
     severity |-> mapRegressionSeverity(analysis.regression.severity),
     message |-> <<"Performance regression detected in \"", analysis.benchmarkName, "\"">>,
     benchmarkName |-> analysis.benchmarkName,
     context |-> Restrict(analysis.regression,
                          DOMAIN analysis.regression \cap
                            {"durationRegression", "memoryRegression", "cpuRegression"})]

\* the first loop of processAlerts
thresholdAlerts(reportData) ==
    Map(SelectSeq(reportData.performance.benchmarks,
                  LAMBDA b : ~PerformanceReporter_isWithinThresholds(b)),
        thresholdAlert)

\* variant: an alert for every analysis of the regression report
processAlerts_everyAnalysis(reportData) ==
    thresholdAlerts(reportData) \o
    (IF "regression" \in DOMAIN reportData
       THEN Map(reportData.regression.analyses, regressionAlert)
     ELSE <<>>)

\* PerformanceReporter.processAlerts
processAlerts(reportData) ==
    thresholdAlerts(reportData) \o
    (IF /\ "regression" \in DOMAIN reportData
        /\ reportData.regression.overall.hasRegressions
       THEN Map(SelectSeq(reportData.regression.analyses,
                          LAMBDA a : a.regression.detected),
                regressionAlert)
     ELSE <<>>)

\* `${alert.type.toUpperCase()} ALERT: ${alert.message}` after the emoji of
\* the severity
consoleLine(alert) == <<alert.severity, alert.type, " ALERT: ", alert.message>>

hasChannel(channel) ==
    \E k \in 1..Len(reportConfig.alerts.channels) : reportConfig.alerts.channels[k] = channel

\* `report-${Date.now()}`
reportIdOf(t) == <<"report-", t>>

\* path.join(outputDir, `${reportId}.${format}`)
reportFile(reportId, format) == <<reportId, ".", format>>

\* path.join(outputDir, 'alerts.json')
alertsFile == <<<<"alerts">>, ".", "json">>

\* generateReport has returned the path of the HTML report
returnedReport(call, reportData, alerts) ==
    [pc |-> "idle", call |-> call, reportData |-> reportData, alerts |-> alerts,
     outcome |-> "returned",
     path |-> reportFile(reportData.metadata.reportId, "html")]

\* generateReport(performanceReport, regressionReport) up to its first await
\* (ensureOutputDir), called when the writes of the call before have ended
GenerateReport(input) ==
    /\ reporter.pc = "idle"
    /\ inflight = {}
    /\ reporter' = [pc |-> "mkdir", call |-> reporter.call + 1, input |-> input]
    /\ UNCHANGED <<reportConfig, outputDir, inflight, console>>
    /\ UNCHANGED <<runnerVars, detectorVars, severityVars, trendVars, callerVars>>

\* mkdir settled: reportData is built, the writers of the enabled formats
\* start their writeFile, processAlerts runs, and sendAlerts (called when
\* there are alerts) warns on the console and starts the write of the
\* alerts file; generateCharts and sendWebhookAlerts do nothing.  With no
\* write under way Promise.all resolves and the call returns.
ReportDispatch ==
    /\ reporter.pc = "mkdir"
    /\ \E generatedAt \in Now : \E stamp \in {generatedAt, generatedAt + 1} :
         LET reportData ==
                 reporter.input @@
                 [generatedAt |-> generatedAt,
                  metadata |-> [reportId |-> reportIdOf(stamp)]]
             alerts == processAlerts(reportData)
             writes ==
                 {reportFile(reportIdOf(stamp), format) : format \in reportConfig.format} \cup
                 (IF alerts # <<>> /\ hasChannel("file") THEN {alertsFile} ELSE {})
         IN  /\ clock' = stamp
             /\ console' =
                  IF alerts # <<>> /\ hasChannel("console")
                    THEN console \o Map(alerts, consoleLine)
                  ELSE console
             /\ inflight' = writes
             /\ reporter' =
                  IF writes = {} THEN returnedReport(reporter.call, reportData, alerts)
                  ELSE [pc |-> "writing", call |-> reporter.call,
                        reportData |-> reportData, alerts |-> alerts]
    /\ UNCHANGED <<reportConfig, outputDir>>
    /\ UNCHANGED <<files, store, calls, returned, regression>>
    /\ UNCHANGED <<runnerVars, severityVars, trendVars, callerVars>>

\* what a write puts into its file
written(target) ==
    target :> (IF target = alertsFile THEN reporter.alerts ELSE reporter.reportData)

\* a writeFile resolved; after the last one Promise.all resolves and the
\* call returns, unless it has rejected before
WriteResolved(target) ==
    /\ target \in inflight
    /\ inflight' = inflight \ {target}
    /\ outputDir' = written(target) @@ outputDir
    /\ reporter' =
         IF reporter.pc = "writing" /\ inflight' = {}
           THEN returnedReport(reporter.call, reporter.reportData, reporter.alerts)
         ELSE reporter
    /\ UNCHANGED <<reportConfig, console>>
    /\ UNCHANGED <<runnerVars, detectorVars, severityVars, trendVars, callerVars>>

\* the writeFile of the alerts file rejected: the Promise.all of sendAlerts
\* and the one of generateReport reject, and so does the call
AlertsWriteRejected ==
    /\ alertsFile \in inflight
    /\ inflight' = inflight \ {alertsFile}
    /\ reporter' =
         IF reporter.pc = "writing"
           THEN [pc |-> "idle", call |-> reporter.call,
                 reportData |-> reporter.reportData, alerts |-> reporter.alerts,
                 outcome |-> "rejected", dispatch |-> "failed"]
         ELSE reporter
    /\ UNCHANGED <<reportConfig, outputDir, console>>
    /\ UNCHANGED <<runnerVars, detectorVars, severityVars, trendVars, callerVars>>

\* the configuration of the constructor's defaults
ReporterInit ==
    /\ reportConfig = [format |-> {"json", "html", "markdown"},
                       alerts |-> [enabled |-> TRUE, channels |-> <<"console">>]]
    /\ reporter = [pc |-> "idle", call |-> 0]
    /\ outputDir = <<>>
    /\ inflight = {}
    /\ console = <<>>

\* configurations handed to the constructor
ReportConfigs ==
    {[format |-> {"json", "html", "markdown"},
      alerts |-> [enabled |-> TRUE, channels |-> <<"console">>]],
     [format |-> {"csv"},
      alerts |-> [enabled |-> TRUE, channels |-> <<"console", "file">>]],
     [format |-> {},
      alerts |-> [enabled |-> TRUE, channels |-> <<"file">>]],
     [format |-> {"json"},
      alerts |-> [enabled |-> FALSE, channels |-> <<"console", "file">>]]}

ReporterConfiguredInit ==
    /\ reportConfig \in ReportConfigs
    /\ reporter = [pc |-> "idle", call |-> 0]
    /\ outputDir = <<>>
    /\ inflight = {}
    /\ console = <<>>

\* a benchmark of a performance report
Measured(name, duration, thresholdFields) ==
    LET b == [name |-> name, metrics |-> [duration |-> duration, memoryDelta |-> 1]]
    IN  IF thresholdFields = {} THEN b
        ELSE b @@ [thresholds |-> Restrict(AllThresholds, thresholdFields)]

\* performance reports: every benchmark within its ceilings or without
\* thresholds, and two benchmarks of one name beyond their ceilings
QuietReport ==
    [benchmarks |-> <<Measured("a", 1, ThresholdFields), Measured("b", 3, {})>>]

LoudReport ==
    [benchmarks |-> <<Measured("a", 2, ThresholdFields), Measured("b", 1, {"maxDuration"}),
                      Measured("a", 4, {"maxDuration"})>>]

\* three stored runs of "a" and "b"
ReportHistory ==
    [k \in 1..3 |-> [timestamp |-> k, benchmarks |-> <<Bench("a", 100), Bench("b", 100)>>]]

\* regression reports produced by analyzeRegression: no regression, and a
\* critical one of "a"
SteadyRegression ==
    analyzeRegression(ReportHistory, <<Bench("a", 100), Bench("b", 100)>>)

CriticalRegression ==
    analyzeRegression(ReportHistory, <<Bench("b", 100), Bench("a", 160)>>)

\* generateReport(performanceReport, regressionReport?)
ReportInputs ==
    {[performance |-> QuietReport],
     [performance |-> QuietReport, regression |-> SteadyRegression],
     [performance |-> QuietReport, regression |-> CriticalRegression],
     [performance |-> LoudReport],
     [performance |-> LoudReport, regression |-> CriticalRegression]}

ReporterNext ==
    \/ /\ reporter.call < MaxReports
       /\ \E input \in ReportInputs : GenerateReport(input)
    \/ ReportDispatch
    \/ \E target \in inflight : WriteResolved(target)
    \/ AlertsWriteRejected

(***************************************************************************)
(* compareImplementations: the comparison of the two results               *)
(***************************************************************************)
\* the doubles that are no fractions
NaN == [nan |-> TRUE]

Infinity == [inf |-> 1]

NegInfinity == [inf |-> -1]

isFinite(x) == "num" \in DOMAIN x

\* a / b in doubles, for fractions a and b: a zero divisor gives NaN or an
\* infinity
quotient(a, b) ==
    IF b.num # 0 THEN RatDiv(a, b)
    ELSE IF a.num = 0 THEN NaN
    ELSE IF a.num > 0 THEN Infinity
    ELSE NegInfinity

\* x * 100
percent(x) == IF isFinite(x) THEN RatTimes(x, 100) ELSE x

\* Math.abs(x)
abs(x) ==
    IF isFinite(x) THEN RatAbs(x)
    ELSE IF x = NaN THEN NaN
    ELSE Infinity

\* x < k and x > k for an integer k: false for NaN
lessThan(x, k) ==
    IF isFinite(x) THEN ~RatGeq(x, Rat(k, 1)) ELSE x = NegInfinity

greaterThan(x, k) ==
    IF isFinite(x) THEN RatGt(x, Rat(k, 1)) ELSE x = Infinity

\* const threshold = 5
tieThreshold == 5

\* the winner, from the improvement of the duration
winnerOf(durationImprovement) ==
    IF lessThan(abs(durationImprovement), tieThreshold) THEN "tie"
    ELSE IF greaterThan(durationImprovement, 0) THEN "implementation2"
    ELSE "implementation1"

\* compareImplementations, after its two runTest calls have returned result1
\* and result2
comparison(result1, result2) ==
    LET durationImprovement ==
            percent(quotient(RatSub(Rat(result1.summary.averageDuration, 1),
                                    Rat(result2.summary.averageDuration, 1)),
                             Rat(result1.summary.averageDuration, 1)))
        memoryImprovement ==
            percent(quotient(RatSub(Rat(result1.summary.averageMemoryDelta, 1),
                                    Rat(result2.summary.averageMemoryDelta, 1)),
                             RatAbs(Rat(result1.summary.averageMemoryDelta, 1))))
    IN  [durationImprovement |-> durationImprovement,
         memoryImprovement |-> memoryImprovement,
         winner |-> winnerOf(durationImprovement)]

NoComparison == [pending |-> TRUE]

Compare ==
    /\ cmpOut = NoComparison
    /\ cmpOut' = [result1 |-> cmpIn.result1, result2 |-> cmpIn.result2,
                  comparison |-> comparison(cmpIn.result1, cmpIn.result2)]
    /\ UNCHANGED <<cmpIn, suiteVars, ledgerVars, toolVars>>
    /\ UNCHANGED <<runnerVars, detectorVars, severityVars, trendVars, reporterVars>>

\* the summary of a runTest result, as far as the comparison reads it
Averages(duration, memoryDelta) ==
    [summary |-> [averageDuration |-> duration, averageMemoryDelta |-> memoryDelta]]

\* average durations: 0 (every iteration threw), and averages 4%, 5% and 6%
\* below and above 100
AverageDurations1 == {0, 100}

AverageDurations2 == {0, 94, 95, 96, 100, 104, 105, 106}

AverageMemoryDeltas == {-10, 0, 10}

CompareInit ==
    /\ cmpIn = [result1 |-> Averages(100, 10), result2 |-> Averages(100, 10)]
    /\ cmpOut = NoComparison

CompareInputInit ==
    /\ cmpIn \in [result1 : {Averages(d, m) : d \in AverageDurations1,
                                             m \in AverageMemoryDeltas},
                  result2 : {Averages(d, m) : d \in AverageDurations2,
                                             m \in AverageMemoryDeltas}]
    /\ cmpOut = NoComparison

(***************************************************************************)
(* runTestSuite                                                            *)
(***************************************************************************)
\* no runTestSuite call yet
NoSuite == [pc |-> "idle"]

\* PerformanceProfiler.generateReport not called yet
NoProfilerReport == [pending |-> TRUE]

RatAdd(a, b) == Rat(a.num * b.den + b.num * a.den, a.den * b.den)

\* r.summary.averageDuration: the sum of the durations over their number
averageDurationOf(r) == quotient(Rat(r.summary.totalDuration, 1), Rat(r.summary.count, 1))

\* results.reduce((sum, r) => sum + r.summary.averageDuration, 0)
RECURSIVE SumAverages(_)
SumAverages(results) ==
    IF results = <<>> THEN Rat(0, 1)
    ELSE RatAdd(averageDurationOf(Head(results)), SumAverages(Tail(results)))

RECURSIVE SumBenchmarks(_)
SumBenchmarks(results) ==
    IF results = <<>> THEN 0
    ELSE Len(Head(results).benchmarks) + SumBenchmarks(Tail(results))

\* what runTestSuite returns for the results of its tests
suiteResult(results) ==
    LET totalTests == Len(results)
        passedTests == Len(SelectSeq(results, LAMBDA r : r.passed))
    IN  [results |-> results,
         summary |-> [totalTests |-> totalTests,
                      passedTests |-> passedTests,
                      failedTests |-> totalTests - passedTests,
                      totalIterations |-> SumBenchmarks(results),
                      averageDuration |->
                          quotient(SumAverages(results), Rat(totalTests, 1))]]

\* variant: the loop ends at the first test that did not pass
nextTest_stopsAtFailure(tests, results) ==
    IF Len(results) < Len(tests) /\ results[Len(results)].passed
      THEN Len(results) + 1
    ELSE 0

\* the test the for loop runs after `results`, 0 when the loop has ended
nextTest(tests, results) ==
    IF Len(results) < Len(tests) THEN Len(results) + 1 ELSE 0

suiteReturned(tests, results) ==
    [pc |-> "idle", tests |-> tests, outcome |-> "returned",
     value |-> suiteResult(results)]

\* runTestSuite(tests) up to its first await: the first runTest call up to
\* its first await, or the return for an empty list
RunTestSuite(tests) ==
    /\ suite = NoSuite
    /\ pc = "idle"
    /\ IF tests = <<>>
         THEN /\ suite' = suiteReturned(tests, <<>>)
              /\ UNCHANGED runnerVars
       ELSE /\ suite' = [pc |-> "running", tests |-> tests, results |-> <<>>]
            /\ StartRun(tests[1])
    /\ UNCHANGED <<compareVars, ledgerVars, toolVars>>
    /\ UNCHANGED <<detectorVars, severityVars, trendVars, reporterVars>>

\* await this.runTest(...) resolved: the result is pushed, and the next
\* runTest call runs up to its first await or the suite returns
SuiteCollect ==
    /\ suite.pc = "running"
    /\ pc = "done"
    /\ LET results == Append(suite.results, result)
           next == nextTest(suite.tests, results)
       IN  IF next = 0
             THEN /\ suite' = suiteReturned(suite.tests, results)
                  /\ pc' = "idle"
                  /\ UNCHANGED <<config, i, benchmarks, result, log, measurements>>
           ELSE /\ suite' = [suite EXCEPT !.results = results]
                /\ StartRun(suite.tests[next])
    /\ UNCHANGED <<compareVars, ledgerVars, toolVars>>
    /\ UNCHANGED <<detectorVars, severityVars, trendVars, reporterVars>>

\* await this.runTest(...) rejected (a hook threw): runTestSuite rejects
SuiteRejected ==
    /\ suite.pc = "running"
    /\ pc = "rejected"
    /\ suite' = [pc |-> "idle", tests |-> suite.tests, outcome |-> "rejected",
                 results |-> suite.results]
    /\ pc' = "idle"
    /\ UNCHANGED <<config, i, benchmarks, result, log, measurements>>
    /\ UNCHANGED <<compareVars, ledgerVars, toolVars>>
    /\ UNCHANGED <<detectorVars, severityVars, trendVars, reporterVars>>

\* the tests of the suites: two iterations under every ceiling, one
\* iteration with a setup hook and no thresholds, and one iteration under a
\* ceiling of the duration
SuiteTest1 ==
    [name |-> "suite-test-1", iterations |-> 2, setup |-> FALSE, cleanup |-> FALSE,
     thresholds |-> AllThresholds]

SuiteTest2 ==
    [name |-> "suite-test-2", iterations |-> 1, setup |-> TRUE, cleanup |-> FALSE]

SuiteTest3 ==
    [name |-> "suite-test-3", iterations |-> 1, setup |-> FALSE, cleanup |-> FALSE,
     thresholds |-> [maxDuration |-> 1]]

SuiteTests ==
    {<<>>, <<SuiteTest1>>, <<SuiteTest2, SuiteTest1>>,
     <<SuiteTest1, SuiteTest2, SuiteTest3>>}

SuiteNext ==
    \/ \E tests \in SuiteTests : RunTestSuite(tests)
    \/ SetupReturn
    \/ SetupThrow
    \/ MeasureReturn
    \/ MeasureThrow
    \/ SuiteCollect
    \/ SuiteRejected

(***************************************************************************)
(* The ledger of the shared PerformanceProfiler                            *)
(***************************************************************************)
\* PerformanceProfiler.isWithinThresholds
PerformanceProfiler_isWithinThresholds(benchmark) ==
    IF "thresholds" \notin DOMAIN benchmark THEN TRUE
    ELSE LET t == benchmark.thresholds
             metrics == benchmark.metrics
         IN  IF "maxDuration" \in DOMAIN t /\ metrics.duration > t.maxDuration THEN FALSE
             ELSE IF "maxMemoryDelta" \in DOMAIN t /\ metrics.memoryDelta > t.maxMemoryDelta
                    THEN FALSE
             ELSE IF /\ "maxCpuUsage" \in DOMAIN t
                     /\ "cpuUsage" \in DOMAIN metrics
                     /\ metrics.cpuUsage > t.maxCpuUsage
                    THEN FALSE
             ELSE TRUE

\* PerformanceProfiler.generateReport: the summary and the copy of the
\* ledger (runId, the times and the platform are left out)
PerformanceProfiler_generateReport(ledger) ==
    LET totalDuration == SumDurations(ledger)
    IN  [benchmarks |-> ledger,
         summary |->
           [totalTests |-> Len(ledger),
            passedTests |->
                Len(SelectSeq(ledger, PerformanceProfiler_isWithinThresholds)),
            failedTests |->
                Len(SelectSeq(ledger,
                              LAMBDA m : ~PerformanceProfiler_isWithinThresholds(m))),
            totalDuration |-> totalDuration,
            averageDuration |->
                IF Len(ledger) > 0 THEN Rat(totalDuration, Len(ledger)) ELSE Rat(0, 1)]]

\* the operations a runTest call has called, by its log
OperationsCalled == Cardinality({p \in 1..Len(log) : log[p].kind = "op-start"})

\* runTest calls of one session
LedgerRuns == 2

\* a runTest call on the runner that shares the profiler
SessionRunTest(cfg) ==
    /\ pc = "idle"
    /\ session.runs < LedgerRuns
    /\ session' = [session EXCEPT !.runs = @ + 1]
    /\ StartRun(cfg)
    /\ UNCHANGED <<compareVars, suiteVars, profilerReport, toolVars>>
    /\ UNCHANGED <<detectorVars, severityVars, trendVars, reporterVars>>

\* the runTest call has returned or rejected to its caller
SessionRunSettled ==
    /\ pc \in {"done", "rejected"}
    /\ suite = NoSuite
    /\ session' = [session EXCEPT !.executed = @ + OperationsCalled]
    /\ pc' = "idle"
    /\ UNCHANGED <<config, i, benchmarks, result, log, measurements>>
    /\ UNCHANGED <<compareVars, suiteVars, profilerReport, toolVars>>
    /\ UNCHANGED <<detectorVars, severityVars, trendVars, reporterVars>>

\* profiler.clearMeasurements()
ClearMeasurements ==
    /\ pc = "idle"
    /\ measurements' = <<>>
    /\ session' = [session EXCEPT !.executed = 0]
    /\ UNCHANGED <<pc, config, i, benchmarks, result, log>>
    /\ UNCHANGED <<compareVars, suiteVars, profilerReport, toolVars>>
    /\ UNCHANGED <<detectorVars, severityVars, trendVars, reporterVars>>

\* profiler.generateReport(); `executed` keeps the operations called since
\* the ledger was cleared (history field)
ProfilerGenerateReport ==
    /\ pc = "idle"
    /\ profilerReport' = [report |-> PerformanceProfiler_generateReport(measurements),
                          executed |-> session.executed]
    /\ UNCHANGED <<runnerVars, compareVars, suiteVars, session, toolVars>>
    /\ UNCHANGED <<detectorVars, severityVars, trendVars, reporterVars>>

\* the tests of a session: as in the report test, and one with hooks and no
\* thresholds
LedgerTest1 ==
    [name |-> "report-test-1", iterations |-> 2, setup |-> FALSE, cleanup |-> FALSE,
     thresholds |-> AllThresholds]

LedgerTest2 ==
    [name |-> "report-test-2", iterations |-> 1, setup |-> TRUE, cleanup |-> TRUE]

LedgerNext ==
    \/ \E cfg \in {LedgerTest1, LedgerTest2} : SessionRunTest(cfg)
    \/ SetupReturn
    \/ SetupThrow
    \/ MeasureReturn
    \/ MeasureThrow
    \/ CleanupReturn
    \/ CleanupThrow
    \/ SessionRunSettled
    \/ ClearMeasurements
    \/ ProfilerGenerateReport

(***************************************************************************)
(* calculateSeverity on its own                                            *)
(***************************************************************************)
Tiers == {"minor", "moderate", "major", "critical"}

\* percentages below, on and above every threshold of the three tables
Percentages ==
    {0} \cup
    {thresholds[dim][tier] + k :
       dim \in {"duration", "memory", "cpu"}, tier \in Tiers, k \in -PctSlack..PctSlack}

SeverityInputs ==
    [durationRegression : Percentages, memoryRegression : Percentages] \cup
    [durationRegression : Percentages, memoryRegression : Percentages,
     cpuRegression : Percentages]

AsRat(input) == [f \in DOMAIN input |-> Rat(input[f], 1)]

NoSeverity == [pending |-> TRUE]

Classify ==
    /\ sevOut = NoSeverity
    /\ sevOut' = [severity |-> calculateSeverity(AsRat(sevIn))]
    /\ UNCHANGED <<sevIn, runnerVars, detectorVars, trendVars, reporterVars, callerVars>>

SeverityInit ==
    /\ sevIn = [durationRegression |-> 0, memoryRegression |-> 0]
    /\ sevOut = NoSeverity

SeverityInputInit ==
    /\ sevIn \in SeverityInputs
    /\ sevOut = NoSeverity

(***************************************************************************)
(* PerformanceProfiler.measureSync and measureAsync                        *)
(***************************************************************************)
\* most measureSync and measureAsync calls of one behaviour
MaxMeasured == 2

\* most firings of the CPU monitor's interval during one operation
MaxCpuSamples == 2

\* the variables a sampler call leaves alone, the ledger excepted
besideSampler ==
    <<pc, config, i, benchmarks, result, log, detectorVars, severityVars, trendVars,
      reporterVars, compareVars, suiteVars, ledgerVars,
      summaries, perfConfig, logger, activation, verdicts, statusBar>>

\* PerformanceProfilerOptions: collectCpuMetrics and metadata are optional
PerformanceProfilerOptions ==
    {[collectCpuMetrics |-> FALSE], [collectCpuMetrics |-> TRUE],
     [collectCpuMetrics |-> TRUE, metadata |-> "meta"]}

\* values an operation returns or resolves with
Returned == {"first", "second"}

\* what an operation does when it is called: an operation handed to
\* measureSync returns or throws, one handed to measureAsync returns a promise
\* or throws before it returns one
Behaviours ==
    [does : {"returns"}, value : Returned] \cup [does : {"throws"}, error : Thrown]

\* performance.now() differences, process.memoryUsage().heapUsed readings and
\* getCpuUsage() readings
Elapsed == {2}

HeapUsed == {1, 2}

CpuUsed == {3}

\* options.collectCpuMetrics is truthy: the interval is set
collects(options) ==
    "collectCpuMetrics" \in DOMAIN options /\ options.collectCpuMetrics

\* the metrics object built after the operation completed; cpuUsage is the
\* exact average of the samples, undefined (absent) without samples
metricsOf(options, duration, memoryBefore, memoryAfter, cpuSamples) ==
    LET measured ==
            [duration |-> duration, memoryBefore |-> memoryBefore,
             memoryAfter |-> memoryAfter, memoryDelta |-> memoryAfter - memoryBefore]
        withCpu ==
            IF Len(cpuSamples) > 0
              THEN measured @@ [cpuUsage |-> Rat(SumSeq(cpuSamples), Len(cpuSamples))]
              ELSE measured
    IN  IF "metadata" \in DOMAIN options
          THEN withCpu @@ [metadata |-> options.metadata]
          ELSE withCpu

\* variant: the catch block wraps what was thrown in a new Error
rethrown_wrapped(error) ==
    [isError |-> TRUE, message |-> "Measurement failed"]

\* catch (error) { ... throw error }
rethrown(error) == error

\* the try block after the operation returned or resolved with `value`: the
\* call resolves with the result and the benchmark it pushed
completed(call, value, duration, memoryAfter) ==
    LET benchmark ==
            [name |-> call.name,
             metrics |-> metricsOf(call.options, duration, call.memoryBefore,
                                   memoryAfter, call.cpuSamples)]
    IN  /\ measurements' = Append(measurements, benchmark)
        /\ sampler' = [call EXCEPT !.pc = "resolved", !.monitor = FALSE]
                      @@ [returned |-> [result |-> value, benchmark |-> benchmark]]

\* the catch block: the monitor is cleared and the error thrown again
caught(call, error) ==
    /\ sampler' = [call EXCEPT !.pc = "rejected", !.monitor = FALSE]
                  @@ [thrown |-> rethrown(error)]
    /\ UNCHANGED measurements

\* the call up to the try block
entered(kind, name, options, memoryBefore) ==
    [pc |-> "operation", kind |-> kind, name |-> name, options |-> options,
     calls |-> sampler.calls + 1, memoryBefore |-> memoryBefore,
     monitor |-> collects(options), cpuSamples |-> <<>>,
     invoked |-> 0, ledger |-> measurements]

\* the operation is called; `did` is what it did (history field)
invoke(call, did) ==
    [call EXCEPT !.invoked = @ + 1] @@ [did |-> did]

\* measureSync(name, operation, options): no await from the first line to the
\* return, so no interval callback runs in between
MeasureSync(name, options) ==
    /\ sampler.pc \in {"idle", "resolved", "rejected"}
    /\ sampler.calls < MaxMeasured
    /\ \E memoryBefore \in HeapUsed, did \in Behaviours :
         LET call == invoke(entered("sync", name, options, memoryBefore), did)
         IN  IF did.does = "returns"
               THEN \E duration \in Elapsed, memoryAfter \in HeapUsed :
                       completed(call, did.value, duration, memoryAfter)
               ELSE caught(call, did.error)
    /\ UNCHANGED besideSampler

\* measureAsync(name, operation, options) up to `await operation()`
MeasureAsync(name, options) ==
    /\ sampler.pc \in {"idle", "resolved", "rejected"}
    /\ sampler.calls < MaxMeasured
    /\ \E memoryBefore \in HeapUsed :
         LET call == entered("async", name, options, memoryBefore)
         IN  \/ /\ sampler' = invoke(call, [does |-> "pending"])
                /\ UNCHANGED measurements
             \/ \E error \in Thrown :
                  caught(invoke(call, [does |-> "throws", error |-> error]), error)
    /\ UNCHANGED besideSampler

\* the interval of the CPU monitor fires while the operation is awaited
CpuSample ==
    /\ sampler.pc = "operation"
    /\ sampler.monitor
    /\ Len(sampler.cpuSamples) < MaxCpuSamples
    /\ \E usage \in CpuUsed :
         sampler' = [sampler EXCEPT !.cpuSamples = Append(@, usage)]
    /\ UNCHANGED measurements
    /\ UNCHANGED besideSampler

\* the awaited promise of the operation resolves
OperationResolved ==
    /\ sampler.pc = "operation"
    /\ \E value \in Returned, duration \in Elapsed, memoryAfter \in HeapUsed :
         completed([sampler EXCEPT !.did = [does |-> "resolves", value |-> value]],
                   value, duration, memoryAfter)
    /\ UNCHANGED besideSampler

\* the awaited promise of the operation rejects
OperationRejected ==
    /\ sampler.pc = "operation"
    /\ \E error \in Thrown :
         caught([sampler EXCEPT !.did = [does |-> "rejects", error |-> error]], error)
    /\ UNCHANGED besideSampler

SamplerInit == sampler = [pc |-> "idle", calls |-> 0]

SamplerNames == {"op"}

SamplerNext ==
    \/ \E name \in SamplerNames, options \in PerformanceProfilerOptions :
         MeasureSync(name, options)
    \/ \E name \in SamplerNames, options \in PerformanceProfilerOptions :
         MeasureAsync(name, options)
    \/ CpuSample
    \/ OperationResolved
    \/ OperationRejected

(***************************************************************************)
(* PerformanceReporter.generateSummary                                     *)
(***************************************************************************)
\* most generateSummary calls on one pair of reports
MaxSummaries == 2

besideSummaries ==
    <<runnerVars, detectorVars, severityVars, trendVars, reporterVars, compareVars,
      suiteVars, ledgerVars, sampler, perfConfig, logger, activation, verdicts,
      statusBar>>

RECURSIVE PowerOfTen(_)
PowerOfTen(digits) == IF digits = 0 THEN 1 ELSE 10 * PowerOfTen(digits - 1)

\* Number.prototype.toFixed(digits) of the fraction x: the nearest multiple
\* of 10^-digits, the larger in magnitude of two equally near ones, written
\* as sign, integer part and decimals
toFixed(x, digits) ==
    LET scale == PowerOfTen(digits)
        magnitude == IF x.num < 0 THEN -x.num ELSE x.num
        n == (2 * magnitude * scale + x.den) \div (2 * x.den)
    IN  [negative |-> x.num < 0, integer |-> n \div scale, decimals |-> n % scale,
         digits |-> digits]

\* the lines written for one analysis with a detected regression
detailsOf(analysis) ==
    <<<<"  * ", analysis.benchmarkName, ": ", analysis.regression.severity,
        " regression">>,
      <<"    Duration: ", toFixed(analysis.regression.durationRegression, 1),
        "% slower">>,
      <<"    Memory: ", toFixed(analysis.regression.memoryRegression, 1), "% more">>>>
    \o (IF "cpuRegression" \in DOMAIN analysis.regression
          THEN <<<<"    CPU: ", toFixed(analysis.regression.cpuRegression, 1),
                   "% more">>>>
          ELSE <<>>)
    \o << <<"">> >>

\* PerformanceReporter.generateSummary: the text, line by line
PerformanceReporter_generateSummary(args) ==
    LET summary == args.performance.summary
        head ==
            <<<<"Performance Test Summary">>, <<"========================">>, <<"">>,
              <<"Total Tests: ", summary.totalTests>>,
              <<"Passed: ", summary.passedTests>>,
              <<"Failed: ", summary.failedTests>>,
              <<"Average Duration: ", toFixed(summary.averageDuration, 2), "ms">>,
              <<"Total Duration: ", toFixed(Rat(summary.totalDuration, 1), 2), "ms">>,
              <<"">>>>
    IN  IF "regression" \notin DOMAIN args THEN head
        ELSE LET regressionReport == args.regression
                 detected == SelectSeq(regressionReport.analyses,
                                       LAMBDA a : a.regression.detected)
             IN  head
                 \o <<<<"Regression Analysis">>, <<"==================">>, <<"">>,
                      <<regressionReport.overall.summary>>, <<"">>>>
                 \o (IF regressionReport.overall.hasRegressions
                       THEN <<<<"Regression Details:">>>>
                            \o Concat(Map(detected, detailsOf))
                       ELSE <<>>)

\* variant: the analyses without a detected regression are removed from the
\* report itself
filtered_inPlace(analyses) ==
    SelectSeq(analyses, LAMBDA a : a.regression.detected)

\* regressionReport.analyses after analyses.filter(...): filter returns a new
\* array and leaves the one it is called on alone
filtered(analyses) == analyses

\* the arguments after generateSummary returned
afterSummary(args) ==
    IF "regression" \in DOMAIN args /\ args.regression.overall.hasRegressions
      THEN [args EXCEPT !.regression.analyses = filtered(@)]
      ELSE args

\* generateSummary(performanceReport, regressionReport?) on the same objects
GenerateSummary ==
    /\ Len(summaries.texts) < MaxSummaries
    /\ summaries' =
         [summaries EXCEPT
            !.texts = Append(@, PerformanceReporter_generateSummary(summaries.args)),
            !.args = afterSummary(@)]
    /\ UNCHANGED besideSummaries

\* the ledgers the performance reports are generated from
SummaryBenchmarks ==
    {Measured(name, duration, fields) :
        name \in {"a", "b"}, duration \in {1, 2}, fields \in {{}, ThresholdFields}}

SummaryLedgers ==
    {<<>>} \cup {<<b>> : b \in SummaryBenchmarks}
           \cup {<<b, c>> : b \in SummaryBenchmarks, c \in SummaryBenchmarks}

\* generateSummary(performanceReport, regressionReport?)
SummaryInputs ==
    LET reports == {[performance |-> PerformanceProfiler_generateReport(ledger)] :
                       ledger \in SummaryLedgers}
    IN  reports \cup
        {report @@ [regression |-> regressionReport] :
            report \in reports,
            regressionReport \in {SteadyRegression, CriticalRegression}}

Summaries(input) == [args |-> input, given |-> input, texts |-> <<>>]

SummaryInit == summaries = Summaries([performance |-> PerformanceProfiler_generateReport(<<>>)])

SummaryInputInit == summaries \in {Summaries(input) : input \in SummaryInputs}

(***************************************************************************)
(* getPerformanceConfig                                                    *)
(***************************************************************************)
besidePerfConfig ==
    <<runnerVars, detectorVars, severityVars, trendVars, reporterVars, compareVars,
      suiteVars, ledgerVars, sampler, summaries, logger, activation, verdicts,
      statusBar>>

\* one megabyte, 1024 * 1024 bytes
MB == 1024 * 1024

Ceilings(maxDuration, maxMemoryDelta, maxCpuUsage) ==
    [maxDuration |-> maxDuration, maxMemoryDelta |-> maxMemoryDelta,
     maxCpuUsage |-> maxCpuUsage]

\* ENVIRONMENT_CONFIGS: the thresholds and execution.defaultIterations of
\* the two profiles (what both spread from DEFAULT_PERFORMANCE_CONFIG
\* unchanged is left out)
ENVIRONMENT_CONFIGS ==
    [CI |-> [thresholds |->
                [activation |-> Ceilings(10000, 100 * MB, 95),
                 commands |-> Ceilings(5000, 50 * MB, 90),
                 fileLoad |-> Ceilings(5000, 50 * MB, 85),
                 webview |-> Ceilings(10000, 100 * MB, 95)],
             execution |-> [defaultIterations |-> 3]],
     DEV |-> [thresholds |->
                [activation |-> Ceilings(1500, 40 * MB, 70),
                 commands |-> Ceilings(300, 8 * MB, 60),
                 fileLoad |-> Ceilings(800, 15 * MB, 50),
                 webview |-> Ceilings(1200, 25 * MB, 65)],
              execution |-> [defaultIterations |-> 10]]]

\* Boolean(process.env[name]): an unset variable is undefined, a set one is a
\* string, and the empty string is the only falsy string
BooleanOf(env, name) == name \in DOMAIN env /\ env[name] # ""

\* getPerformanceConfig()
getPerformanceConfig(env) ==
    LET isCi == BooleanOf(env, "CI") \/ BooleanOf(env, "NODE_ENV")
    IN  IF isCi THEN ENVIRONMENT_CONFIGS.CI ELSE ENVIRONMENT_CONFIGS.DEV

NoConfig == [thresholds |-> <<>>, execution |-> <<>>]

\* getPerformanceConfig() called in the process
GetPerformanceConfig ==
    /\ perfConfig' = [perfConfig EXCEPT !.returned = getPerformanceConfig(perfConfig.env),
                                        !.called = TRUE]
    /\ UNCHANGED besidePerfConfig

\* process.env: CI, NODE_ENV and TERM each unset or set to a string
Environments ==
    LET all == [CI : {"", "true", "false", "1", "0"},
                NODE_ENV : {"", "test", "development", "production"},
                TERM : {"xterm"}]
    IN  {Restrict(env, names) : env \in all, names \in SUBSET {"CI", "NODE_ENV", "TERM"}}

Process(env) == [env |-> env, called |-> FALSE, returned |-> NoConfig]

EnvInit == perfConfig = Process([TERM |-> "xterm"])

EnvInputInit == perfConfig \in {Process(env) : env \in Environments}

(***************************************************************************)
(* Logger and the extend-vscode.logLevel configuration section             *)
(***************************************************************************)
\* most lines of the output channel
MaxLines == 3

besideLogger ==
    <<runnerVars, detectorVars, severityVars, trendVars, reporterVars, compareVars,
      suiteVars, ledgerVars, sampler, summaries, perfConfig, activation, verdicts,
      statusBar>>

\* const levels: LogLevel[] = ['debug', 'info', 'warn', 'error']
levels == <<"debug", "info", "warn", "error">>

\* Array.prototype.indexOf, 0-based, -1 when absent
indexOf(s, x) ==
    IF \E k \in 1..Len(s) : s[k] = x
      THEN (CHOOSE k \in 1..Len(s) : s[k] = x /\ \A j \in 1..(k - 1) : s[j] # x) - 1
      ELSE -1

\* DEFAULT_OPTIONS of the logger
DEFAULT_OPTIONS == [minLevel |-> "info", timestamps |-> TRUE]

\* Logger.shouldLog
shouldLog(options, level) ==
    indexOf(levels, level) >= indexOf(levels, options.minLevel)

\* String.prototype.toUpperCase of a level
toUpperCase(level) ==
    CASE level = "debug" -> "DEBUG"
      [] level = "info" -> "INFO"
      [] level = "warn" -> "WARN"
      [] level = "error" -> "ERROR"

\* Logger.log without further arguments: the lines the channel holds
\* afterwards (the timestamp of the prefix is written as "[now] "; a message
\* is a tuple of its pieces, the empty string the empty tuple)
logged(lg, level, message) ==
    IF ~shouldLog(lg.options, level) THEN lg.channel
    ELSE Append(lg.channel,
                <<IF lg.options.timestamps THEN "[now] " ELSE "",
                  toUpperCase(level), message>>)

\* Logger.debug, info, warn, and error with a string: one log call; `asked`
\* keeps the level and whether a line was appended (history field)
Log(level, message) ==
    /\ Len(logger.channel) < MaxLines
    /\ logger' = [logger EXCEPT
                    !.channel = logged(logger, level, message),
                    !.asked = [level |-> level,
                               appended |-> logged(logger, level, message)
                                              # logger.channel]]
    /\ UNCHANGED besideLogger

\* Logger.error with an Error: the message, then the stack when it is a
\* non-empty string
LogError(error) ==
    /\ Len(logger.channel) + 1 < MaxLines
    /\ LET first == [logger EXCEPT !.channel = logged(logger, "error", error.message)]
           last == IF error.stack # <<>>
                     THEN logged(first, "error", error.stack)
                     ELSE first.channel
       IN  logger' = [logger EXCEPT
                        !.channel = last,
                        !.asked = [level |-> "error",
                                   appended |-> last # logger.channel]]
    /\ UNCHANGED besideLogger

\* config.get(section) ?? defaultValue of the logLevel section
getValue(setting) == IF setting = "unset" THEN "info" ELSE setting

\* the user changes extend-vscode.logLevel: the listener installed by
\* ConfigurationSection.watch reads the new value, keeps it as currentValue
\* and calls onChange, which logs the change at level info
ChangeLogLevel(value) ==
    /\ Len(logger.channel) < MaxLines
    /\ value # logger.configured
    /\ LET newValue == getValue(value)
       IN  logger' = [logger EXCEPT
                        !.configured = value,
                        !.setting = newValue,
                        !.currentValue = newValue,
                        !.changed = TRUE,
                        !.channel = logged(logger, "info",
                                           <<"Log level changed to ", newValue>>)]
    /\ UNCHANGED besideLogger

\* the logger singleton and the watched section after setupConfiguration,
\* nothing logged yet
LoggerInit ==
    logger = [options |-> DEFAULT_OPTIONS, configured |-> "unset", setting |-> "info",
              currentValue |-> "info", changed |-> FALSE, channel |-> <<>>,
              asked |-> [level |-> "info", appended |-> FALSE]]

Messages == {<<"message">>}

Errors == {[message |-> <<"failed">>, stack |-> <<"at activate">>],
           [message |-> <<"failed">>, stack |-> <<>>]}

LoggerNext ==
    \/ \E level \in {"debug", "info", "warn", "error"}, message \in Messages :
         Log(level, message)
    \/ \E error \in Errors : LogError(error)
    \/ \E value \in {"unset", "debug", "info", "warn", "error"} : ChangeLogLevel(value)

(***************************************************************************)
(* ExtensionPerformanceProfiler                                            *)
(***************************************************************************)
\* most measureActivation and measureCommand calls of one behaviour
MaxProfiled == 3

besideActivation ==
    <<pc, config, i, benchmarks, result, log, detectorVars, severityVars, trendVars,
      reporterVars, compareVars, suiteVars, ledgerVars,
      sampler, summaries, perfConfig, logger, verdicts, statusBar>>

\* the optional thresholds argument of measureActivation and measureCommand
GivenThresholds == {<<>>, AllThresholds}

\* `thresholds` as a field of a benchmark: undefined when not given
withThresholds(benchmark, given) ==
    IF given = <<>> THEN benchmark ELSE benchmark @@ [thresholds |-> given]

\* the metrics of measureActivation without an extension context (initialize
\* was not called): no disposables counted, versions unknown
activationMetricsOf(activationTime, memoryAfter) ==
    [activationTime |-> activationTime, memoryUsage |-> memoryAfter,
     commandsRegistered |-> 0, disposablesCreated |-> 0,
     vsCodeVersion |-> "unknown", extensionVersion |-> "unknown"]

\* the benchmark measureActivation creates for the profiler
activationBenchmark(metrics, memoryBefore, memoryAfter, given) ==
    withThresholds(
      [name |-> "extension-activation",
       metrics |-> [duration |-> metrics.activationTime,
                    memoryBefore |-> memoryBefore,
                    memoryAfter |-> memoryAfter,
                    memoryDelta |-> memoryAfter - memoryBefore,
                    metadata |-> [vsCodeVersion |-> metrics.vsCodeVersion,
                                  extensionVersion |-> metrics.extensionVersion,
                                  disposablesCreated |-> metrics.disposablesCreated]]],
      given)

\* PerformanceProfiler.getMeasurements: return [...this.measurements], a new
\* array with the same elements
getMeasurements(ledger) == [copy |-> ledger]

\* this.measurements after this.profiler.getMeasurements().push(benchmark):
\* the benchmark is appended to the copy, the ledger keeps its elements
pushed(ledger, benchmark) ==
    LET received == getMeasurements(ledger)
        appended == Append(received.copy, benchmark)
    IN  ledger

\* measureActivation(activationFn, thresholds) up to `await activationFn()`
MeasureActivation(given) ==
    /\ activation.pc = "idle"
    /\ activation.calls < MaxProfiled
    /\ \E memoryBefore \in HeapUsed :
         activation' = [activation EXCEPT !.pc = "activating", !.calls = @ + 1,
                                          !.given = given,
                                          !.memoryBefore = memoryBefore]
    /\ UNCHANGED measurements
    /\ UNCHANGED besideActivation

\* activationFn() resolves: the metrics are kept, the benchmark is created
\* and pushed, the call resolves
ActivationResolved ==
    /\ activation.pc = "activating"
    /\ \E activationTime \in Elapsed, memoryAfter \in HeapUsed :
         LET metrics == activationMetricsOf(activationTime, memoryAfter)
             benchmark == activationBenchmark(metrics, activation.memoryBefore,
                                              memoryAfter, activation.given)
         IN  /\ measurements' = pushed(measurements, benchmark)
             /\ activation' = [activation EXCEPT
                                 !.pc = "idle",
                                 !.activationMetrics = <<metrics>>,
                                 !.activated = Append(@, benchmark)]
    /\ UNCHANGED besideActivation

\* activationFn() rejects: measureActivation rejects, nothing is recorded
ActivationRejected ==
    /\ activation.pc = "activating"
    /\ activation' = [activation EXCEPT !.pc = "idle"]
    /\ UNCHANGED measurements
    /\ UNCHANGED besideActivation

\* measureCommand(commandId, commandFn, thresholds) up to the await of
\* measureAsync
MeasureCommand(commandId, given) ==
    /\ activation.pc = "idle"
    /\ activation.calls < MaxProfiled
    /\ \E memoryBefore \in HeapUsed :
         activation' = [activation EXCEPT !.pc = "command", !.calls = @ + 1,
                                          !.given = given, !.commandId = commandId,
                                          !.memoryBefore = memoryBefore]
    /\ UNCHANGED measurements
    /\ UNCHANGED besideActivation

\* measureAsync resolves: it has pushed the benchmark; the command metrics
\* are recorded and the thresholds set on the pushed benchmark
CommandResolved ==
    /\ activation.pc = "command"
    /\ \E duration \in Elapsed, memoryAfter \in HeapUsed :
         LET benchmark ==
                 [name |-> <<"command-", activation.commandId>>,
                  metrics |-> metricsOf([metadata |-> [commandId |-> activation.commandId]],
                                        duration, activation.memoryBefore,
                                        memoryAfter, <<>>)]
             commandMetrics ==
                 [commandId |-> activation.commandId,
                  executionTime |-> benchmark.metrics.duration,
                  memoryDelta |-> benchmark.metrics.memoryDelta,
                  success |-> TRUE,
                  metadata |-> benchmark.metrics.metadata]
         IN  /\ measurements' =
                  Append(measurements, withThresholds(benchmark, activation.given))
             /\ activation' = [activation EXCEPT
                                 !.pc = "idle",
                                 !.commandMetrics = Append(@, commandMetrics)]
    /\ UNCHANGED besideActivation

\* measureAsync rejects: measureCommand rejects
CommandRejected ==
    /\ activation.pc = "command"
    /\ activation' = [activation EXCEPT !.pc = "idle"]
    /\ UNCHANGED measurements
    /\ UNCHANGED besideActivation

\* clearMetrics()
ClearMetrics ==
    /\ activation.pc = "idle"
    /\ activation.calls > 0
    /\ measurements' = <<>>
    /\ activation' = [activation EXCEPT !.commandMetrics = <<>>,
                                        !.activationMetrics = <<>>,
                                        !.activated = <<>>,
                                        !.report = <<>>]
    /\ UNCHANGED besideActivation

\* generateExtensionReport(): the activation metrics, the counts of the
\* commands and the totals of profiler.generateReport (the average time and
\* the breakdown by command are left out)
generateExtensionReport(ledger, state) ==
    LET report == PerformanceProfiler_generateReport(ledger)
        successfulCommands ==
            Len(SelectSeq(state.commandMetrics, LAMBDA m : m.success))
    IN  [activation |-> state.activationMetrics,
         commands |-> [total |-> Len(state.commandMetrics),
                       successful |-> successfulCommands,
                       failed |-> Len(state.commandMetrics) - successfulCommands],
         overall |-> [totalBenchmarks |-> report.summary.totalTests,
                      passedThresholds |-> report.summary.passedTests,
                      failedThresholds |-> report.summary.failedTests]]

GenerateExtensionReport ==
    /\ activation.pc = "idle"
    /\ activation.calls > 0
    /\ activation' = [activation EXCEPT
                        !.report = <<[returned |-> generateExtensionReport(measurements,
                                                                         activation),
                                      activated |-> Len(activation.activated)]>>]
    /\ UNCHANGED measurements
    /\ UNCHANGED besideActivation

\* the singleton after getInstance(): nothing measured; `activated` keeps the
\* benchmarks measureActivation created since the last clear, and the last
\* report how many they were when it was generated (history fields)
ActivationInit ==
    activation = [pc |-> "idle", calls |-> 0, given |-> <<>>, commandId |-> "none",
                  memoryBefore |-> 0, activationMetrics |-> <<>>,
                  commandMetrics |-> <<>>, activated |-> <<>>, report |-> <<>>]

ActivationNext ==
    \/ \E given \in GivenThresholds : MeasureActivation(given)
    \/ ActivationResolved
    \/ ActivationRejected
    \/ \E given \in GivenThresholds : MeasureCommand("open", given)
    \/ CommandResolved
    \/ CommandRejected
    \/ ClearMetrics
    \/ GenerateExtensionReport

(***************************************************************************)
(* The three threshold checks on one benchmark                             *)
(***************************************************************************)
besideVerdicts ==
    <<runnerVars, detectorVars, severityVars, trendVars, reporterVars, compareVars,
      suiteVars, ledgerVars, sampler, summaries, perfConfig, logger, activation,
      statusBar>>

\* the runner's count of failed iterations, the failedTests of the
\* profiler's report and the threshold alerts of the reporter, each for the
\* one benchmark
checkedBy(benchmark) ==
    [runner |-> testResult([name |-> "op", iterations |-> 1],
                           <<benchmark>>).summary.failedIterations,
     profiler |-> PerformanceProfiler_generateReport(<<benchmark>>).summary.failedTests,
     reporter |-> Len(SelectSeq(processAlerts([performance |->
                                                  [benchmarks |-> <<benchmark>>]]),
                                LAMBDA alert : alert.type = "threshold"))]

\* the benchmark goes through the runner's statistics, the profiler's
\* generateReport and the reporter's processAlerts
CheckThresholds ==
    /\ verdicts' = [verdicts EXCEPT !.checked = TRUE,
                                    !.failed = checkedBy(verdicts.benchmark)]
    /\ UNCHANGED besideVerdicts

\* metrics below, on and above the ceilings of AllThresholds, cpuUsage
\* present or absent
CheckedMetrics ==
    LET measured == [duration : {0, 1, 2}, memoryDelta : {-1, 1, 2}]
    IN  measured \cup {m @@ [cpuUsage |-> usage] : m \in measured, usage \in {0, 1, 2}}

\* benchmarks without thresholds and with every set of ceilings
CheckedBenchmarks ==
    LET bare == {[name |-> "op", metrics |-> m] : m \in CheckedMetrics}
    IN  bare \cup {b @@ [thresholds |-> t] : b \in bare, t \in PerformanceThresholds}

Unchecked(benchmark) ==
    [benchmark |-> benchmark, checked |-> FALSE,
     failed |-> [runner |-> 0, profiler |-> 0, reporter |-> 0]]

VerdictInit == verdicts = Unchecked([name |-> "op", metrics |-> [duration |-> 0, memoryDelta |-> 1]])

VerdictInputInit == verdicts \in {Unchecked(b) : b \in CheckedBenchmarks}

(***************************************************************************)
(* StatusBarManager                                                        *)
(***************************************************************************)
\* most status bar items created in one behaviour
MaxItems == 4

besideStatusBar ==
    <<runnerVars, detectorVars, severityVars, trendVars, reporterVars, compareVars,
      suiteVars, ledgerVars, sampler, summaries, perfConfig, logger, activation,
      verdicts>>

\* ids handed to createItem, removeItem and getItem
ItemIds == {"status", "sync", "build"}

\* StatusBarManager.getItem: this.items.get(id); an item is the number it
\* was created as
getItem(items, id) == IF id \in DOMAIN items THEN Number(items[id]) ELSE undefined

\* createItem(id, options): a new StatusBarItem is constructed and set in the
\* map under id, in place of the item the map held under that id
CreateItem(id) ==
    /\ statusBar.created < MaxItems
    /\ LET item == statusBar.created + 1
       IN  statusBar' = [statusBar EXCEPT
                           !.created = item,
                           !.items = (id :> item) @@ @,
                           !.torndown = FALSE]
    /\ UNCHANGED besideStatusBar

\* removeItem(id): the item the map holds under id is disposed and deleted
RemoveItem(id) ==
    /\ statusBar.created > 0
    /\ LET item == getItem(statusBar.items, id)
       IN  statusBar' =
             IF item # undefined
               THEN [statusBar EXCEPT
                       !.disposed = @ \cup {item[1]},
                       !.items = Restrict(@, DOMAIN @ \ {id}),
                       !.torndown = FALSE]
             ELSE [statusBar EXCEPT !.torndown = FALSE]
    /\ UNCHANGED besideStatusBar

\* dispose(): every item of the map is disposed, then the map is cleared;
\* `torndown` tells that no call followed the dispose (history field)
DisposeManager ==
    /\ statusBar.created > 0
    /\ ~statusBar.torndown
    /\ statusBar' = [statusBar EXCEPT
                       !.disposed = @ \cup {statusBar.items[id] :
                                              id \in DOMAIN statusBar.items},
                       !.items = <<>>,
                       !.torndown = TRUE]
    /\ UNCHANGED besideStatusBar

\* new StatusBarManager(): an empty map; `created` counts the items
\* constructed and `disposed` holds those whose dispose() was called
StatusBarInit ==
    statusBar = [items |-> <<>>, created |-> 0, disposed |-> {}, torndown |-> FALSE]

StatusBarNext ==
    \/ \E id \in ItemIds : CreateItem(id)
    \/ \E id \in ItemIds : RemoveItem(id)
    \/ DisposeManager

RunnerInit ==
    /\ pc = "idle"
    /\ config = [name |-> "op", iterations |-> 1, setup |-> FALSE, cleanup |-> FALSE]
    /\ i = 0
    /\ benchmarks = <<>>
    /\ result = NoResult
    /\ log = <<>>
    /\ measurements = <<>>

\* nothing called yet on the tools
ToolInit ==
    /\ SamplerInit
    /\ LoggerInit
    /\ ActivationInit
    /\ StatusBarInit

\* the arguments of the functions that are given no particular input
PureInit ==
    /\ SummaryInit
    /\ EnvInit
    /\ VerdictInit

CallerInit ==
    /\ suite = NoSuite
    /\ session = [runs |-> 0, executed |-> 0]
    /\ profilerReport = NoProfilerReport
    /\ ToolInit

Init ==
    /\ RunnerInit /\ DetectorInit /\ SeverityInit /\ TrendsInit /\ ReporterInit
    /\ CompareInit /\ CallerInit /\ PureInit

\* as Init, with the arguments of calculateSeverity drawn from SeverityInputs
InputInit ==
    /\ RunnerInit /\ DetectorInit /\ SeverityInputInit /\ TrendsInit /\ ReporterInit
    /\ CompareInit /\ CallerInit /\ PureInit

\* as Init, with the reporter constructed from one of ReportConfigs
ConfiguredInit ==
    /\ RunnerInit /\ DetectorInit /\ SeverityInit /\ TrendsInit /\ ReporterConfiguredInit
    /\ CompareInit /\ CallerInit /\ PureInit

\* as Init, with the two results of compareImplementations drawn from the
\* averages above
ComparedInit ==
    /\ RunnerInit /\ DetectorInit /\ SeverityInit /\ TrendsInit /\ ReporterInit
    /\ CompareInputInit /\ CallerInit /\ PureInit

\* as Init, with the arguments of generateSummary drawn from SummaryInputs
SummarisedInit ==
    /\ RunnerInit /\ DetectorInit /\ SeverityInit /\ TrendsInit /\ ReporterInit
    /\ CompareInit /\ CallerInit
    /\ SummaryInputInit
    /\ EnvInit
    /\ VerdictInit

\* as Init, with process.env drawn from Environments
EnvironmentInit ==
    /\ RunnerInit /\ DetectorInit /\ SeverityInit /\ TrendsInit /\ ReporterInit
    /\ CompareInit /\ CallerInit
    /\ SummaryInit
    /\ EnvInputInit
    /\ VerdictInit

\* as Init, with the benchmark of the three checks drawn from
\* CheckedBenchmarks
CheckedInit ==
    /\ RunnerInit /\ DetectorInit /\ SeverityInit /\ TrendsInit /\ ReporterInit
    /\ CompareInit /\ CallerInit
    /\ SummaryInit
    /\ EnvInit
    /\ VerdictInputInit

Next ==
    \/ \E cfg \in PerformanceTestConfig : RunTest(cfg)
    \/ SetupReturn
    \/ SetupThrow
    \/ MeasureReturn
    \/ MeasureThrow
    \/ CleanupReturn
    \/ CleanupThrow

\* one runTest call
Spec == Init /\ [][Next]_vars

\* storeHistoricalData calls made one at a time
SpecStore == Init /\ [][StoreNext]_vars

\* stored runs, then analyzeRegression
SpecDetector == Init /\ [][DetectorNext]_vars

\* calculateSeverity applied to one triple of percentages
SpecSeverity == InputInit /\ [][Classify]_vars

\* stored runs and getPerformanceTrends queries
SpecTrends == Init /\ [][TrendsNext]_vars

\* stored runs, damaged files, then the queries
SpecDamage == Init /\ [][DamageNext]_vars

\* generateReport calls made one at a time on one reporter
SpecReporter == ConfiguredInit /\ [][ReporterNext]_vars

\* the comparison of compareImplementations applied to one pair of results
SpecCompare == ComparedInit /\ [][Compare]_vars

\* one runTestSuite call
SpecSuite == Init /\ [][SuiteNext]_vars

\* runTest, clearMeasurements and generateReport calls on one profiler
SpecLedger == Init /\ [][LedgerNext]_vars

\* measureSync and measureAsync calls made one at a time
SpecSampler == Init /\ [][SamplerNext]_vars

\* generateSummary calls on one pair of reports
SpecSummary == SummarisedInit /\ [][GenerateSummary]_vars

\* getPerformanceConfig called in one environment
SpecPerfConfig == EnvironmentInit /\ [][GetPerformanceConfig]_vars

\* log calls and changes of the logLevel setting
SpecLogger == Init /\ [][LoggerNext]_vars

\* measureActivation, measureCommand, clearMetrics and
\* generateExtensionReport calls made one at a time
SpecActivation == Init /\ [][ActivationNext]_vars

\* the three threshold checks applied to one benchmark
SpecVerdicts == CheckedInit /\ [][CheckThresholds]_vars

\* storeHistoricalData calls of two callers, interleaving at their awaits
SpecOverlap == Init /\ [][OverlapNext]_vars

\* createItem, removeItem and dispose calls on one StatusBarManager
SpecStatusBar == Init /\ [][StatusBarNext]_vars

(***************************************************************************)
(* Properties of runTest                                                   *)
(***************************************************************************)
Iterations == 1..Len(benchmarks)

\* the positions of the log holding an event of that kind and iteration
At(kind, k) ==
    {p \in 1..Len(log) : log[p].kind = kind /\ log[p].iteration = k}

Happened(kind, k) == At(kind, k) # {}

\* every position of the first set is smaller than every one of the second
Before(P, Q) == \A p \in P, q \in Q : p < q

HasThresholds == "thresholds" \in DOMAIN config

\* a benchmark exceeds a ceiling of the configuration
ExceedsCeiling(b) ==
    /\ HasThresholds
    /\ \/ /\ "maxDuration" \in DOMAIN config.thresholds
          /\ b.metrics.duration > config.thresholds.maxDuration
       \/ /\ "maxMemoryDelta" \in DOMAIN config.thresholds
          /\ b.metrics.memoryDelta > config.thresholds.maxMemoryDelta
       \/ /\ "maxCpuUsage" \in DOMAIN config.thresholds
          /\ "cpuUsage" \in DOMAIN b.metrics
          /\ b.metrics.cpuUsage > config.thresholds.maxCpuUsage

EverySlower ==
    /\ HasThresholds
    /\ "maxDuration" \in DOMAIN config.thresholds
    /\ \A k \in Iterations :
         benchmarks[k].metrics.duration > config.thresholds.maxDuration

\* C1: when runTest returns, failedIterations is the number of benchmarks
\* exceeding a configured ceiling and passed is true iff no thresholds were
\* configured or failedIterations = 0; without thresholds passed is true
\* whatever was measured; with maxDuration set and every iteration slower,
\* passed is false and failedIterations >= 1
C1_PassedIffNoFailures ==
    pc = "done" =>
      /\ result.summary.failedIterations =
           Cardinality({k \in Iterations : ExceedsCeiling(result.benchmarks[k])})
      /\ result.passed <=> (~HasThresholds \/ result.summary.failedIterations = 0)
      /\ ~HasThresholds => result.passed
      /\ EverySlower => ~result.passed /\ result.summary.failedIterations >= 1

C1_Witness ==
    /\ pc = "done"
    /\ config.iterations >= 2
    /\ EverySlower
    /\ ~result.passed
    /\ result.summary.failedIterations = config.iterations

\* C2: a returned result holds exactly N benchmarks, the k-th named
\* <name>-iteration-k, and passedIterations + failedIterations = N; runTest
\* rejects only when a hook threw
C2_OneBenchmarkPerIteration ==
    /\ pc = "done" =>
         /\ Len(result.benchmarks) = config.iterations
         /\ \A k \in 1..config.iterations :
              result.benchmarks[k].name = <<config.name, "-iteration-", k>>
         /\ result.summary.passedIterations + result.summary.failedIterations
              = config.iterations
    /\ pc = "rejected" =>
         log[Len(log)].kind \in {"setup-throw", "cleanup-throw"}

C2_Witness ==
    /\ pc = "done"
    /\ config.iterations = MaxIterations
    /\ Len(result.benchmarks) = MaxIterations
    /\ Happened("op-throw", 1)
    /\ Happened("op-end", 2)

\* C3: an operation that throws in iteration k does not make runTest reject:
\* the step that handles the throw records for iteration k a benchmark with
\* duration 0, memoryDelta 0 and the error's message in metadata.error, and
\* goes on; a run that returns has executed the operation in every iteration
C3_ThrowIsRecorded ==
    /\ \A k \in 1..config.iterations :
         \A p \in At("op-throw", k) :
           /\ k \in Iterations
           /\ benchmarks[k].metrics.duration = 0
           /\ benchmarks[k].metrics.memoryDelta = 0
           /\ "error" \in DOMAIN benchmarks[k].metrics.metadata
           /\ log[p].error.isError =>
                benchmarks[k].metrics.metadata.error = log[p].error.message
           /\ pc = "rejected" => log[Len(log)].kind # "op-throw"
    /\ pc = "done" =>
         \A k \in 1..config.iterations :
           Cardinality(At("op-start", k)) = 1

C3_Witness ==
    /\ pc = "done"
    /\ config.iterations = MaxIterations
    /\ Happened("op-throw", 1)
    /\ log[CHOOSE p \in At("op-throw", 1) : TRUE].error.isError
    /\ Happened("op-end", MaxIterations)

OpReturned(k) == At("op-end", k) \cup At("op-throw", k)

\* C4: in every iteration whose operation was started (its setup hook, if
\* any, completed), once the measurement has returned or thrown the cleanup
\* hook has been invoked exactly once, after the measurement; it is never
\* invoked otherwise
C4_CleanupExactlyOnce ==
    \A k \in 1..config.iterations :
      /\ (config.cleanup /\ OpReturned(k) # {}) =>
           /\ Cardinality(At("cleanup-start", k)) = 1
           /\ Before(OpReturned(k), At("cleanup-start", k))
      /\ (~config.cleanup \/ OpReturned(k) = {}) => At("cleanup-start", k) = {}
      /\ (config.setup /\ Happened("op-start", k)) => Happened("setup-end", k)

C4_Witness ==
    /\ config.cleanup
    /\ config.setup
    /\ Happened("op-throw", 1)
    /\ Happened("cleanup-end", 1)
    /\ Happened("op-end", 2)
    /\ Happened("cleanup-start", 2)

StartKinds == {"setup-start", "op-start", "cleanup-start"}

\* the events that close a step that was started
Closing(kind) ==
    CASE kind = "setup-start" -> {"setup-end", "setup-throw"}
      [] kind = "op-start" -> {"op-end", "op-throw"}
      [] kind = "cleanup-start" -> {"cleanup-end", "cleanup-throw"}

\* C5: the steps of one runTest never overlap: a step that was started is
\* closed before any other starts; iteration k+1's setup hook (and
\* operation) starts only after iteration k's cleanup hook has completed; an
\* iteration's operation runs after its setup has completed and before its
\* cleanup starts
C5_StepsNeverOverlap ==
    /\ \A p \in 1..Len(log) - 1 :
         log[p].kind \in StartKinds =>
           /\ log[p + 1].kind \in Closing(log[p].kind)
           /\ log[p + 1].iteration = log[p].iteration
    /\ \A k \in 1..config.iterations :
         /\ config.setup => Before(At("setup-end", k), At("op-start", k))
         /\ (config.setup /\ Happened("op-start", k)) => Happened("setup-end", k)
         /\ Before(OpReturned(k), At("cleanup-start", k))
         /\ (config.cleanup /\ k > 1) =>
              /\ Before(At("cleanup-end", k - 1),
                        At("setup-start", k) \cup At("op-start", k))
              /\ (Happened("setup-start", k) \/ Happened("op-start", k)) =>
                   Happened("cleanup-end", k - 1)

C5_Witness ==
    /\ config.cleanup
    /\ config.setup
    /\ Happened("cleanup-end", 1)
    /\ Happened("setup-start", 2)
    /\ Happened("op-throw", 2)
    /\ Happened("cleanup-end", 2)

(***************************************************************************)
(* Properties of the regression detector                                   *)
(***************************************************************************)
Analysed == "report" \in DOMAIN regression

\* the stored benchmarks of that name, counted file by file
StoredSamples(name) ==
    UNION {{<<f, k>> : k \in {j \in 1..Len(files[f].benchmarks) :
                                files[f].benchmarks[j].name = name}} :
           f \in DOMAIN files}

Sufficient(name) == Cardinality(StoredSamples(name)) >= 3

AnalysedNames ==
    {regression.report.analyses[j].benchmarkName :
       j \in 1..Len(regression.report.analyses)}

\* C6: the report holds an analysis for the name of a current benchmark iff
\* at least minSamples (3) stored benchmarks carry that name; totalBenchmarks
\* counts the current benchmarks with enough samples, and no entry of the
\* report concerns a name with fewer samples
C6_AnalysedIffEnoughSamples ==
    Analysed =>
      LET cur == regression.currentBenchmarks
      IN  /\ \A k \in 1..Len(cur) :
                cur[k].name \in AnalysedNames <=> Sufficient(cur[k].name)
          /\ regression.report.totalBenchmarks =
                Cardinality({k \in 1..Len(cur) : Sufficient(cur[k].name)})
          /\ \A name \in AnalysedNames : Sufficient(name)

C6_Witness ==
    /\ Analysed
    /\ Cardinality(StoredSamples("b")) = 2
    /\ Cardinality(StoredSamples("a")) = 3
    /\ Len(regression.currentBenchmarks) = 2
    /\ AnalysedNames = {"a"}
    /\ regression.report.totalBenchmarks = 1

SeverityRank ==
    [none |-> 0, minor |-> 1, moderate |-> 2, major |-> 3, critical |-> 4]

Dimensions == {"duration", "memory", "cpu"}

\* the percentage of a dimension, when the dimension was given
Given(input) ==
    {dim \in Dimensions :
       CASE dim = "duration" -> TRUE
         [] dim = "memory" -> TRUE
         [] dim = "cpu" -> "cpuRegression" \in DOMAIN input}

PercentageOf(input, dim) ==
    CASE dim = "duration" -> input.durationRegression
      [] dim = "memory" -> input.memoryRegression
      [] dim = "cpu" -> input.cpuRegression

\* the tiers some dimension reaches in its own table
OwnTiers(input) ==
    {tier \in Tiers :
       \E dim \in Given(input) : PercentageOf(input, dim) >= thresholds[dim][tier]}

\* C7: the severity is the highest tier for which some dimension's percentage
\* is >= that dimension's own threshold, and none when no dimension reaches
\* its own minor threshold
C7_EachDimensionItsOwnTable ==
    "severity" \in DOMAIN sevOut =>
      /\ OwnTiers(sevIn) = {} => sevOut.severity = "none"
      /\ OwnTiers(sevIn) # {} =>
           /\ sevOut.severity \in OwnTiers(sevIn)
           /\ \A tier \in OwnTiers(sevIn) :
                SeverityRank[tier] <= SeverityRank[sevOut.severity]

\* the analyses of a benchmark measured at 160 ms against a mean of 100 ms,
\* memory and CPU as in the baseline
SixtyPercentCases ==
    {j \in 1..Len(regression.report.analyses) :
       LET a == regression.report.analyses[j]
       IN  /\ a.baseline.sampleCount >= 3
           /\ RatEq(a.baseline.duration, Rat(100, 1))
           /\ a.current.duration = 160
           /\ RatEq(a.baseline.memoryDelta, Rat(a.current.memoryDelta, 1))
           /\ "cpuUsage" \in DOMAIN a.baseline
           /\ "cpuUsage" \in DOMAIN a.current
           /\ RatEq(a.baseline.cpuUsage, Rat(a.current.cpuUsage, 1))}

\* C8 as stated: 160 ms against a baseline mean of 100 ms is reported as a
\* duration regression of 60% and classified major
C8_SixtyPercentIsMajor ==
    Analysed =>
      \A j \in SixtyPercentCases :
        /\ RatEq(regression.report.analyses[j].regression.durationRegression,
                 Rat(60, 1))
        /\ regression.report.analyses[j].regression.severity = "major"

\* C8 amended: 160 ms against a baseline mean of 100 ms is reported as a
\* duration regression of 60% and classified critical (60 >= 50)
C8_SixtyPercentIsCritical ==
    Analysed =>
      \A j \in SixtyPercentCases :
        /\ RatEq(regression.report.analyses[j].regression.durationRegression,
                 Rat(60, 1))
        /\ regression.report.analyses[j].regression.severity = "critical"

C8_Witness ==
    /\ Analysed
    /\ SixtyPercentCases # {}
    /\ \E j \in SixtyPercentCases :
         /\ regression.report.analyses[j].regression.severity = "critical"
         /\ regression.report.analyses[j].baseline.sampleCount = 4

Regressed ==
    {j \in 1..Len(regression.report.analyses) :
       regression.report.analyses[j].regression.severity # "none"}

\* C9: in a returned report an analysis is detected iff its severity is not
\* none, hasRegressions iff some analysis has a severity other than none,
\* regressionsDetected counts those analyses, and worstSeverity is the
\* greatest severity of the analyses in the order none < minor < moderate <
\* major < critical (none without analyses)
C9_ReportAggregates ==
    Analysed =>
      LET r == regression.report
      IN  /\ \A j \in 1..Len(r.analyses) :
                r.analyses[j].regression.detected <=> j \in Regressed
          /\ r.overall.hasRegressions <=> Regressed # {}
          /\ r.regressionsDetected = Cardinality(Regressed)
          /\ r.analyses = <<>> => r.overall.worstSeverity = "none"
          /\ \A j \in 1..Len(r.analyses) :
                SeverityRank[r.analyses[j].regression.severity]
                  <= SeverityRank[r.overall.worstSeverity]
          /\ r.analyses # <<>> =>
                \E j \in 1..Len(r.analyses) :
                  r.analyses[j].regression.severity = r.overall.worstSeverity

C9_Witness ==
    /\ Analysed
    /\ Len(regression.report.analyses) = 2
    /\ regression.report.analyses[1].regression.severity = "none"
    /\ regression.report.analyses[2].regression.severity = "critical"
    /\ regression.report.overall.worstSeverity = "critical"
    /\ regression.report.regressionsDetected = 1

(***************************************************************************)
(* Properties of the historical store                                      *)
(***************************************************************************)
StoredCalls == {files[f].call : f \in DOMAIN files}

\* C10: whenever a storeHistoricalData call has returned at most
\* maxHistoryCount records are stored, and after maxHistoryCount + 5 calls
\* exactly maxHistoryCount records remain, those of the maxHistoryCount
\* latest calls
C10_KeepsTheLatestRecords ==
    AllIdle =>
      /\ Cardinality(DOMAIN files) <= maxHistoryCount
      /\ returned = maxHistoryCount + 5 =>
           /\ Cardinality(DOMAIN files) = maxHistoryCount
           /\ StoredCalls = (returned - maxHistoryCount + 1)..returned

\* C11: a storeHistoricalData call never changes the content of a record
\* stored before, its write adds exactly one new record holding the
\* report's benchmarks, and a record that disappears is older than every
\* record that stays
C11_WritesAreAppendOnly ==
    [][/\ \A f \in DOMAIN files \cap DOMAIN files' : files'[f] = files[f]
       /\ \A c \in Callers :
            (store[c].pc = "write" /\ store'[c].pc = "readdir") =>
              \E f \in DOMAIN files' \ DOMAIN files :
                /\ DOMAIN files' = DOMAIN files \cup {f}
                /\ files'[f].benchmarks = store[c].report.benchmarks
       /\ \A f \in DOMAIN files \ DOMAIN files' :
            \A g \in DOMAIN files' : files[f].call < files'[g].call]_vars

(***************************************************************************)
(* Properties of getPerformanceTrends                                      *)
(***************************************************************************)
TrendAsked == "result" \in DOMAIN trends

\* the stored benchmarks of the name asked for: file and position
Matching ==
    {p \in (DOMAIN trends.dir) \X (1..4) :
       /\ p[2] <= Len(trends.dir[p[1]].benchmarks)
       /\ trends.dir[p[1]].benchmarks[p[2]].name = trends.benchmarkName}

\* what the four arrays hold for a stored benchmark
StoredPoint(p) ==
    LET data == trends.dir[p[1]]
        b == data.benchmarks[p[2]]
    IN  [timestamp |-> data.timestamp, duration |-> b.metrics.duration,
         memoryDelta |-> b.metrics.memoryDelta,
         cpuUsage |-> IF HasCpu(b) THEN Number(b.metrics.cpuUsage) ELSE undefined]

\* the k-th entry of the four arrays
ReturnedPoint(k) ==
    [timestamp |-> trends.result.timestamps[k], duration |-> trends.result.durations[k],
     memoryDelta |-> trends.result.memoryDeltas[k],
     cpuUsage |-> trends.result.cpuUsages[k]]

TimesStored(v) == Cardinality({p \in Matching : StoredPoint(p) = v})

TimesReturned(v) ==
    Cardinality({k \in 1..Len(trends.result.timestamps) : ReturnedPoint(k) = v})

\* C12: getPerformanceTrends(name, count) returns four arrays of one length,
\* at most count and as many as there are stored benchmarks of that name if
\* these are fewer; the entries are stored benchmarks of that name, none
\* more recent than the oldest entry is left out, and the timestamps ascend
C12_TheCountMostRecent ==
    TrendAsked =>
      LET n == Len(trends.result.timestamps)
          stored == Cardinality(Matching)
      IN  /\ Len(trends.result.durations) = n
          /\ Len(trends.result.memoryDeltas) = n
          /\ Len(trends.result.cpuUsages) = n
          /\ n <= trends.count
          /\ n = IF stored < trends.count THEN stored ELSE trends.count
          /\ \A k \in 1..(n - 1) :
               trends.result.timestamps[k] <= trends.result.timestamps[k + 1]
          /\ \A k \in 1..n : TimesReturned(ReturnedPoint(k)) <= TimesStored(ReturnedPoint(k))
          /\ \A p \in Matching :
               (n > 0 /\ StoredPoint(p).timestamp > trends.result.timestamps[1]) =>
                 TimesReturned(StoredPoint(p)) = TimesStored(StoredPoint(p))

(***************************************************************************)
(* Properties of the load with damaged files                               *)
(***************************************************************************)
\* the files of a directory that hold a well-formed record
ValidFiles(dir) == {f \in DOMAIN dir : "benchmarks" \in DOMAIN dir[f]}

WithoutBadFiles(dir) == Restrict(dir, ValidFiles(dir))

\* C13: analyzeRegression and getPerformanceTrends return without an error
\* what they return for the directory without its bad files
C13_BadFilesAreSkipped ==
    /\ "currentBenchmarks" \in DOMAIN regression =>
         /\ Analysed
         /\ \E listing \in Listings(ValidFiles(files)) :
              regression.report =
                analyzeRegression(loadHistoricalData(WithoutBadFiles(files), listing),
                                  regression.currentBenchmarks)
    /\ "count" \in DOMAIN trends =>
         /\ TrendAsked
         /\ \E listing \in Listings(ValidFiles(trends.dir)) :
              trends.result =
                getPerformanceTrends(
                    loadHistoricalData(WithoutBadFiles(trends.dir), listing),
                    trends.benchmarkName, trends.count)

(***************************************************************************)
(* Properties of generateReport                                            *)
(***************************************************************************)
\* processAlerts has run in the call under way or in the last call
Dispatched == "alerts" \in DOMAIN reporter

\* the benchmark lies beyond one of its own ceilings
Beyond(b) ==
    /\ "thresholds" \in DOMAIN b
    /\ \/ /\ "maxDuration" \in DOMAIN b.thresholds
          /\ b.metrics.duration > b.thresholds.maxDuration
       \/ /\ "maxMemoryDelta" \in DOMAIN b.thresholds
          /\ b.metrics.memoryDelta > b.thresholds.maxMemoryDelta
       \/ /\ "maxCpuUsage" \in DOMAIN b.thresholds
          /\ "cpuUsage" \in DOMAIN b.metrics
          /\ b.metrics.cpuUsage > b.thresholds.maxCpuUsage

\* the benchmarks of the performance report beyond their ceilings
BeyondCeilings ==
    {k \in 1..Len(reporter.reportData.performance.benchmarks) :
       Beyond(reporter.reportData.performance.benchmarks[k])}

\* the analyses of the regression report with a severity other than none
SevereAnalyses ==
    IF "regression" \in DOMAIN reporter.reportData
      THEN {k \in 1..Len(reporter.reportData.regression.analyses) :
              reporter.reportData.regression.analyses[k].regression.severity # "none"}
    ELSE {}

AlertsFor(type, name) ==
    {k \in 1..Len(reporter.alerts) :
       reporter.alerts[k].type = type /\ reporter.alerts[k].benchmarkName = name}

\* C14: the alerts of a generateReport call are, name by name, one
\* threshold alert for each benchmark beyond its own ceilings and one
\* regression alert for each analysis whose severity is not none, and there
\* are no others
C14_OneAlertPerViolation ==
    Dispatched =>
      /\ \A name \in BenchmarkNames :
           /\ Cardinality(AlertsFor("threshold", name)) =
                Cardinality({k \in BeyondCeilings :
                   reporter.reportData.performance.benchmarks[k].name = name})
           /\ Cardinality(AlertsFor("regression", name)) =
                Cardinality({k \in SevereAnalyses :
                   reporter.reportData.regression.analyses[k].benchmarkName = name})
      /\ Len(reporter.alerts) = Cardinality(BeyondCeilings) + Cardinality(SevereAnalyses)

\* a call with two benchmarks "a" beyond their ceilings, a critical
\* regression of "a" and an analysis of "b" without regression has returned
C14_Witness ==
    /\ Dispatched
    /\ reporter.pc = "idle"
    /\ reporter.outcome = "returned"
    /\ Cardinality(AlertsFor("threshold", "a")) = 2
    /\ Cardinality(AlertsFor("regression", "a")) = 1
    /\ Len(reporter.reportData.regression.analyses) = 2
    /\ Len(reporter.alerts) = 3

\* C15: a generateReport call whose dispatch of the alerts failed has
\* returned the report path, and every enabled format is written
C15_DispatchFailureIsSwallowed ==
    "dispatch" \in DOMAIN reporter =>
      /\ reporter.outcome = "returned"
      /\ \A format \in reportConfig.format :
           reportFile(reporter.reportData.metadata.reportId, format) \in DOMAIN outputDir

\* the alerts the alerts file lists (none when there is no file)
AlertsListed == IF alertsFile \in DOMAIN outputDir THEN outputDir[alertsFile] ELSE <<>>

\* C16: with the file channel configured, when a generateReport call has
\* returned the alerts file lists exactly the alerts of that call
C16_AlertsFileOfTheLastCall ==
    (/\ hasChannel("file")
     /\ reporter.pc = "idle"
     /\ "outcome" \in DOMAIN reporter
     /\ reporter.outcome = "returned") =>
      AlertsListed = reporter.alerts

(***************************************************************************)
(* Properties of compareImplementations                                    *)
(***************************************************************************)
Compared == "comparison" \in DOMAIN cmpOut

\* the two averages differ by no more than 5% of the first one
WithinTie ==
    LET a1 == cmpOut.result1.summary.averageDuration
        a2 == cmpOut.result2.summary.averageDuration
    IN  (IF a1 >= a2 THEN a1 - a2 ELSE a2 - a1) * 100 <= 5 * a1

\* C17: the winner is 'tie' when the two average durations differ by no
\* more than 5% (identical averages included), and otherwise the
\* implementation with the lower average duration
C17_TieWithinFivePercent ==
    Compared =>
      LET a1 == cmpOut.result1.summary.averageDuration
          a2 == cmpOut.result2.summary.averageDuration
      IN  cmpOut.comparison.winner =
            IF WithinTie THEN "tie"
            ELSE IF a2 < a1 THEN "implementation2"
            ELSE "implementation1"

(***************************************************************************)
(* Properties of runTestSuite                                              *)
(***************************************************************************)
SuiteReturned == suite.pc = "idle" /\ "value" \in DOMAIN suite

\* the position in the suite of the test a benchmark was measured for
TestOf(b) == CHOOSE j \in 1..Len(suite.tests) : suite.tests[j].name = b.name[1]

\* the result is the one of a completed run of that test
ResultOf(r, test) ==
    /\ Len(r.benchmarks) = test.iterations
    /\ \A k \in 1..Len(r.benchmarks) : r.benchmarks[k].name = iterationName(test.name, k)

\* C18: while a suite runs, the operation has been measured only for the
\* tests up to the one after the collected results, in list order, and
\* each collected result is the completed run of its test; the returned
\* suite holds one result per test in list order, whether the tests passed
\* or not, and its summary counts the tests, the passed results, the rest
\* as failed, and the benchmarks of all results
C18_SuiteRunsEveryTestInOrder ==
    /\ suite.pc = "running" =>
         /\ config = suite.tests[Len(suite.results) + 1]
         /\ \A j \in 1..Len(suite.results) : ResultOf(suite.results[j], suite.tests[j])
         /\ \A p \in 1..Len(measurements) :
              /\ TestOf(measurements[p]) <= Len(suite.results) + 1
              /\ \A q \in 1..(p - 1) : TestOf(measurements[q]) <= TestOf(measurements[p])
    /\ SuiteReturned =>
         LET results == suite.value.results
             summary == suite.value.summary
         IN  /\ Len(results) = Len(suite.tests)
             /\ \A j \in 1..Len(results) : ResultOf(results[j], suite.tests[j])
             /\ summary.totalTests = Len(suite.tests)
             /\ summary.passedTests =
                  Cardinality({j \in 1..Len(results) : results[j].passed})
             /\ summary.failedTests = summary.totalTests - summary.passedTests
             /\ summary.totalIterations =
                  SumSeq([j \in 1..Len(results) |-> Len(results[j].benchmarks)])

\* a suite of three tests has returned; its first test failed
C18_Witness ==
    /\ SuiteReturned
    /\ Len(suite.tests) = 3
    /\ ~suite.value.results[1].passed
    /\ suite.value.results[3].passed
    /\ suite.value.summary.failedTests = 1
    /\ suite.value.summary.totalIterations = 4

(***************************************************************************)
(* Properties of runTest: iterations whose operation threw                 *)
(***************************************************************************)
\* the iterations of the returned result whose benchmark carries an error
Errored ==
    {k \in 1..Len(result.benchmarks) :
       "error" \in DOMAIN result.benchmarks[k].metrics.metadata}

\* C19: when runTest returns under configured (positive) thresholds, no
\* iteration whose operation threw is among the failed ones, which are the
\* other iterations beyond a ceiling; if every iteration threw, passed is
\* true and there is one benchmark per iteration
C19_ErroredIterationsPass ==
    (pc = "done" /\ HasThresholds) =>
      /\ result.summary.failedIterations =
           Cardinality({k \in 1..Len(result.benchmarks) \ Errored :
                          ExceedsCeiling(result.benchmarks[k])})
      /\ result.summary.failedIterations <= Len(result.benchmarks) - Cardinality(Errored)
      /\ Errored = 1..Len(result.benchmarks) =>
           /\ result.passed
           /\ result.summary.failedIterations = 0
           /\ Len(result.benchmarks) = config.iterations

\* a run of several iterations under every ceiling, all of which threw
C19_Witness ==
    /\ pc = "done"
    /\ HasThresholds
    /\ DOMAIN config.thresholds = ThresholdFields
    /\ config.iterations >= 2
    /\ Errored = 1..config.iterations
    /\ result.passed

(***************************************************************************)
(* Properties of the profiler's ledger                                     *)
(***************************************************************************)
ProfilerReported == "report" \in DOMAIN profilerReport

\* C20: a report of the profiler counts, in summary.totalTests and in
\* benchmarks.length, the operations the runTest calls have called since
\* the ledger was last cleared, and passedTests + failedTests = totalTests
C20_LedgerCountsEveryIteration ==
    ProfilerReported =>
      /\ profilerReport.report.summary.totalTests = profilerReport.executed
      /\ Len(profilerReport.report.benchmarks) = profilerReport.executed
      /\ profilerReport.report.summary.passedTests +
           profilerReport.report.summary.failedTests =
             profilerReport.report.summary.totalTests

(***************************************************************************)
(* Properties of the sampler                                               *)
(***************************************************************************)
Settled == sampler.pc \in {"resolved", "rejected"}

\* C21: when a measureSync or measureAsync call has settled, the operation
\* was called exactly once; if the operation returned or resolved, the call
\* resolved with that value and with one benchmark of the given name, which
\* is the one entry the ledger gained; if the operation threw or rejected,
\* the call rejected with the same error and the ledger gained nothing
C21_OperationOnceAndErrorsPropagate ==
    Settled =>
      /\ sampler.invoked = 1
      /\ sampler.did.does \in {"returns", "resolves"} =>
            /\ sampler.pc = "resolved"
            /\ sampler.returned.result = sampler.did.value
            /\ sampler.returned.benchmark.name = sampler.name
            /\ measurements = Append(sampler.ledger, sampler.returned.benchmark)
      /\ sampler.did.does \in {"throws", "rejects"} =>
            /\ sampler.pc = "rejected"
            /\ sampler.thrown = sampler.did.error
            /\ measurements = sampler.ledger

\* an awaited operation rejected while the CPU monitor had taken a sample,
\* after an earlier call had resolved
C21_Witness ==
    /\ sampler.pc = "rejected"
    /\ sampler.did.does = "rejects"
    /\ Len(sampler.cpuSamples) > 0
    /\ Len(measurements) > 0
Looser(p, q) ==
    /\ \A kind \in DOMAIN p.thresholds :
          /\ p.thresholds[kind].maxDuration > q.thresholds[kind].maxDuration
          /\ p.thresholds[kind].maxMemoryDelta > q.thresholds[kind].maxMemoryDelta
    /\ p.execution.defaultIterations < q.execution.defaultIterations

\* the CI-detection flag is set: CI holds a non-empty string
CiFlagSet == "CI" \in DOMAIN perfConfig.env /\ perfConfig.env.CI # ""

\* C23: getPerformanceConfig returns the CI profile, which is looser than
\* the developer profile, when the CI flag is set in the environment, and the
\* developer profile when it is not set, whatever else the environment holds
C23_CiFlagSelectsTheProfile ==
    perfConfig.called =>
      /\ Looser(ENVIRONMENT_CONFIGS.CI, ENVIRONMENT_CONFIGS.DEV)
      /\ CiFlagSet => perfConfig.returned = ENVIRONMENT_CONFIGS.CI
      /\ ~CiFlagSet => perfConfig.returned = ENVIRONMENT_CONFIGS.DEV
(***************************************************************************)
(* Properties of the logger                                                *)
(***************************************************************************)
\* C24: once the logLevel setting has changed, a log call appends its
\* message to the output channel if and only if the level of the message is
\* at or above the level of the setting in debug < info < warn < error
C24_SettingIsTheMinimumLevel ==
    [][\A level \in {"debug", "info", "warn", "error"}, message \in Messages :
          (logger.changed /\ Log(level, message)) =>
             (logger'.asked.appended <=>
                indexOf(levels, level) >= indexOf(levels, logger.setting))]_vars
(***************************************************************************)
(* Properties of analyzeRegression with repeated names                     *)
(***************************************************************************)
CurrentNames ==
    {regression.currentBenchmarks[k].name : k \in 1..Len(regression.currentBenchmarks)}

\* C25: the report holds at most one analysis per distinct name of the
\* current benchmarks, also when a name occurs more than once among them,
\* and totalBenchmarks is the number of distinct names with at least
\* minSamples stored samples
C25_OneAnalysisPerDistinctName ==
    Analysed =>
      LET analyses == regression.report.analyses
      IN  /\ \A p, q \in 1..Len(analyses) :
                analyses[p].benchmarkName = analyses[q].benchmarkName => p = q
          /\ regression.report.totalBenchmarks =
                Cardinality({name \in CurrentNames : Sufficient(name)})
(***************************************************************************)
(* Properties of a reporter with alerts.enabled = false                    *)
(***************************************************************************)
\* C26: a reporter configured with alerts.enabled = false dispatches no
\* alert: generateReport writes no warning to the console and starts no
\* write of the alerts file, whatever the reports hold
C26_DisabledAlertsDispatchNothing ==
    ~reportConfig.alerts.enabled =>
      /\ console = <<>>
      /\ alertsFile \notin inflight
      /\ alertsFile \notin DOMAIN outputDir
(***************************************************************************)
(* Properties of measureActivation                                         *)
(***************************************************************************)
\* the entries of the profiler's ledger equal to benchmark b
Recorded(b) == {k \in 1..Len(measurements) : measurements[k] = b}

\* C27: every benchmark 'extension-activation' that a completed
\* measureActivation call created since the last clear is among the
\* profiler's recorded measurements, and a report generated since then
\* counts, in overall.totalBenchmarks, those benchmarks beside the ones of
\* the measured commands
C27_ActivationIsInTheLedger ==
    activation.pc = "idle" =>
      /\ \A k \in 1..Len(activation.activated) :
            Recorded(activation.activated[k]) # {}
      /\ activation.report # <<>> =>
            activation.report[1].returned.overall.totalBenchmarks
              = activation.report[1].activated
                  + activation.report[1].returned.commands.total
(***************************************************************************)
(* Properties of the three threshold checks                                *)
(***************************************************************************)
\* the benchmark lies above one of the ceilings set for it; a value on its
\* ceiling, an absent ceiling and an absent cpuUsage do not count
AboveACeiling(b) ==
    /\ "thresholds" \in DOMAIN b
    /\ \E field \in DOMAIN b.thresholds :
          LET value == CASE field = "maxDuration" -> <<b.metrics.duration>>
                         [] field = "maxMemoryDelta" -> <<b.metrics.memoryDelta>>
                         [] field = "maxCpuUsage" ->
                              IF "cpuUsage" \in DOMAIN b.metrics
                                THEN <<b.metrics.cpuUsage>> ELSE <<>>
          IN  value # <<>> /\ value[1] > b.thresholds[field]

\* C28: for every benchmark the runner counts one failed iteration iff the
\* profiler's report counts one failed test iff the reporter raises one
\* threshold alert, and that is so iff the duration, the memory delta or a
\* present cpuUsage lies above its ceiling
C28_ThreeChecksAgree ==
    verdicts.checked =>
      LET failing == IF AboveACeiling(verdicts.benchmark) THEN 1 ELSE 0
      IN  /\ verdicts.failed.runner = failing
          /\ verdicts.failed.profiler = failing
          /\ verdicts.failed.reporter = failing

\* a benchmark with every ceiling set whose duration and memory delta lie on
\* their ceilings and whose cpuUsage lies above its own was checked
C28_Witness ==
    /\ verdicts.checked
    /\ "thresholds" \in DOMAIN verdicts.benchmark
    /\ DOMAIN verdicts.benchmark.thresholds = ThresholdFields
    /\ verdicts.benchmark.metrics.duration = verdicts.benchmark.thresholds.maxDuration
    /\ verdicts.benchmark.metrics.memoryDelta
         = verdicts.benchmark.thresholds.maxMemoryDelta
    /\ "cpuUsage" \in DOMAIN verdicts.benchmark.metrics
    /\ verdicts.benchmark.metrics.cpuUsage > verdicts.benchmark.thresholds.maxCpuUsage
    /\ verdicts.failed.reporter = 1
C30_DisposeDisposesEveryItem ==
    statusBar.torndown =>
      /\ \A item \in 1..statusBar.created : item \in statusBar.disposed
      /\ \A id \in ItemIds : getItem(statusBar.items, id) = undefined
====
